---- MODULE Spec2Model ----
(***************************************************************************)
(* Lume: a chat front end over a Google-OAuth backend.                     *)
(*                                                                         *)
(* The module holds these specifications:                                  *)
(*   SpecAgent    lume-agent/components/ChatInterface.tsx (chat component) *)
(*   SpecClient   the lume-agent API client (token refresh on 401)         *)
(*   SpecOAuth    lume_frontend (Home, PermissionModal, ChatInterface)     *)
(*                against the Django backend's OAuth and chat endpoints:   *)
(*                one browser from its first visit on                      *)
(*   SpecSessions the same components with two browsers logged in          *)
(*   SpecSidebar  the chat and the Sidebar's conversation list             *)
(*   SpecDetector the backend's service detector (detect_services)         *)
(*   SpecApi      the public methods of the API client (ApiResponse)       *)
(*   SpecClientFair  SpecClient when every fetch is answered               *)
(*   SpecPoll     pollTaskStatus over the API client                       *)
(*   SpecAuth     getAuthStatus next to the other requests of the client   *)
(*   SpecLogout   Home.handleLogout next to the chat and the modal         *)
(* Each specification leaves the variables it does not model unchanged.    *)
(***************************************************************************)
EXTENDS Integers, Sequences, FiniteSets, TLC

(***************************************************************************)
(* Text.  A text is a sequence of one-character strings, so that trimming  *)
(* and lower-casing are computed rather than assumed.                      *)
(***************************************************************************)
UpperChars == <<"A", "C", "D", "E", "G", "I", "K", "L", "M", "N", "O", "P", "R", "S", "T">>

LowerChars == <<"a", "c", "d", "e", "g", "i", "k", "l", "m", "n", "o", "p", "r", "s", "t">>

\* String.prototype.toLowerCase, one character
toLowerChar(ch) ==
    IF \E i \in 1..Len(UpperChars) : UpperChars[i] = ch
    THEN LowerChars[CHOOSE i \in 1..Len(UpperChars) : UpperChars[i] = ch]
    ELSE ch

\* String.prototype.toLowerCase
toLowerCase(s) == [i \in 1..Len(s) |-> toLowerChar(s[i])]

\* str.upper(), one character
toUpperChar(ch) ==
    IF \E i \in 1..Len(LowerChars) : LowerChars[i] = ch
    THEN UpperChars[CHOOSE i \in 1..Len(LowerChars) : LowerChars[i] = ch]
    ELSE ch

\* str.upper()
toUpperCase(s) == [i \in 1..Len(s) |-> toUpperChar(s[i])]

isSpace(ch) == ch = " "

RECURSIVE trimStart(_)
trimStart(s) ==
    IF s # <<>> /\ isSpace(Head(s)) THEN trimStart(Tail(s)) ELSE s

RECURSIVE trimEnd(_)
trimEnd(s) ==
    IF s # <<>> /\ isSpace(s[Len(s)]) THEN trimEnd(SubSeq(s, 1, Len(s) - 1)) ELSE s

\* a variant of trim that strips the leading blanks only
trimLeadingOnly(s) == trimStart(s)

\* String.prototype.trim
trim(s) == trimEnd(trimStart(s))

\* a JavaScript value used as a condition: undefined and '' are falsy.
\* An optional text is the empty set (undefined) or a singleton.
truthy(opt) == opt # {} /\ opt # {<<>>}

valueOf(opt) == CHOOSE v \in opt : TRUE

(***************************************************************************)
(* Bounds.                                                                 *)
(***************************************************************************)
\* accepted submits of the agent chat component in one run
MaxSubmits == 1

\* messages the user deletes in one run
MaxDeletes == 1

\* calls of public API methods in one run of the API client
NumRequests == 2

\* promises refreshToken() creates in one run of the API client
MaxRefreshes == 2

\* calls of public API methods in one run of SpecApi
NumApiCalls == 1

\* detect_services calls in one run of SpecDetector
MaxDetections == 3

\* the largest exp of a stored JWT, in seconds
MaxExp == 2

NoToken == 0

NoPromise == 0

NoId == 0

\* state tokens the backend issues in one run
MaxTokens == 2

\* messages the browsers send in one run of SpecSessions
MaxSends == 2

\* messages the browser sends in one run of SpecOAuth
MaxOAuthSends == 1

\* minutes the clock runs
MaxTime == 11

VARIABLES
    \* lume-agent ChatInterface
    agentMessages,   \* useState<Message[]>
    input,           \* useState('') of the textarea
    isLoading,       \* useState(false)
    sendPromptCall,  \* the api.sendPrompt call handleSubmit is awaiting: {} or {prompt}
    lastResponse,    \* what the last api.sendPrompt call settled with
    onErrorCalls,    \* the arguments the onError prop was called with, in order
    idCounter,       \* newId(): ids handed out so far
    submits,         \* accepted submits so far
    deletes,         \* messages deleted so far
    \* lume-agent API client (LumeApiClient, TokenManager)
    lsToken,         \* localStorage['lume_auth_token'], NoToken when absent
    cookieToken,     \* the lume_auth_token cookie, NoToken when absent
    lsRefreshToken,  \* localStorage['lume_refresh_token'], NoToken when absent
    isRefreshing,    \* LumeApiClient.isRefreshing
    refreshPromise,  \* LumeApiClient.refreshPromise: NoPromise (null) or a promise
    promises,        \* the promises refreshToken() has created, each with the
                     \* POST /auth/refresh request its async body makes
    requests,        \* the makeRequest calls of the public API methods
    issued,          \* access tokens the server has issued so far
    locationHref,    \* window.location.href: "/" or "/login"
    \* the Django backend (oauth app)
    now,             \* the clock, in minutes
    users,           \* User rows: per account, whether it exists and its permission flags
    sessions,        \* per browser, whether its session cookie is logged in
    oauthStates,     \* OAuthState rows
    nextState,       \* state tokens generated so far, plus one
    conversations,   \* ChatConversation rows with their ChatMessage rows, by id
    nextMsgId,       \* ChatMessage ids handed out so far, plus one
    lastCallback,    \* how the last callback request ended, "none" before the first
    \* lume_frontend: the browser and Home (page.tsx)
    location,        \* where the browser is: "closed", "app" or "google"
    authUrl,         \* the state parameter of the auth_url the browser went to
    urlParams,       \* window.location.search when the page was loaded
    user,            \* useState<User | null>: {} or {user}
    loading,         \* Home: useState(true)
    currentConversationId,
    showPermissionModal,
    requiredPermissions,
    oauthState,      \* useState<string>(''): <<>> or <<"perm_", Date.now()>>
    selectedPermissions, \* PermissionModal: useState<Record<string, boolean>>
    checkAuthPending,    \* checkAuth() calls that have not answered yet
    reported,        \* the permissions chat responses reported missing since the page load
    lastMissing,     \* missing_permissions of the last response that required permissions
    \* lume_frontend: ChatInterface
    messages,        \* useState<Message[]>([])
    chatLoading,     \* ChatInterface: loading, useState(false)
    loadingMessages, \* useState(false)
    sendPending,     \* apiClient.sendMessage calls that have not answered yet
    loadPending,     \* conversation ids of loadMessages calls that have not answered yet
    sends,           \* messages sent so far
    \* the backend's service detector
    detectLog,       \* the detections made so far: message and result, in order
    \* lume-agent API client: the public methods
    apiCalls,        \* per makeRequest call of a public method: the method, whether
                     \* it has returned, and the ApiResponse it returned
    \* lume_frontend: Sidebar
    sidebarConversations, \* useState<Conversation[]>([]): the ids of the list
    sidebarPending,  \* whether loadConversations has not answered yet
    \* lume-agent API client: pollTaskStatus
    poll             \* the one call of pollTaskStatus: its position, its locals,
                     \* the statuses it was given and the onProgress calls it made

agentVars == <<agentMessages, input, isLoading, sendPromptCall, lastResponse,
               onErrorCalls, idCounter, submits, deletes>>

clientVars == <<lsToken, cookieToken, lsRefreshToken, isRefreshing, refreshPromise,
                promises, requests, issued, locationHref>>

backendVars == <<now, users, sessions, oauthStates, nextState, conversations,
                 nextMsgId, lastCallback>>

homeVars == <<location, authUrl, urlParams, user, loading, currentConversationId,
              showPermissionModal, requiredPermissions, oauthState,
              selectedPermissions, checkAuthPending, reported, lastMissing>>

chatVars == <<messages, chatLoading, loadingMessages, sendPending, loadPending, sends>>

webVars == <<backendVars, homeVars, chatVars>>

detectorVars == <<detectLog>>

\* the variables of the components modelled on their own
apiVars == <<apiCalls>>

sidebarVars == <<sidebarConversations, sidebarPending>>

pollVars == <<poll>>

extVars == <<detectorVars, apiVars, sidebarVars, pollVars>>

vars == <<agentVars, clientVars, webVars, extVars>>

(***************************************************************************)
(* lume-agent/components/ChatInterface.tsx                                 *)
(***************************************************************************)
Str_gmail == <<"g", "m", "a", "i", "l">>

Str_calendar == <<"c", "a", "l", "e", "n", "d", "a", "r">>

Str_tasks == <<"t", "a", "s", "k", "s">>

Str_keep == <<"k", "e", "e", "p">>

Str_maps == <<"m", "a", "p", "s">>

\* function generateSuggestions(service?: string, action?: string): string[]
\* (a of line 366 is computed and never used)
generateSuggestionsNoLower(service, action) ==
    IF ~truthy(service) THEN <<"Tell me more", "Undo", "Help">>
    ELSE LET s == valueOf(service) IN
         IF s = Str_gmail THEN <<"Show inbox", "Draft a reply", "Search email from Alex">>
         ELSE IF s = Str_calendar THEN <<"View my week", "Create event", "Reschedule meeting">>
         ELSE IF s = Str_tasks THEN <<"List tasks", "Add a task", "Mark task done">>
         ELSE IF s = Str_keep THEN <<"New note", "Search notes", "Make a checklist">>
         ELSE IF s = Str_maps THEN <<"Nearby cafes", "Traffic to work", "Best route home">>
         ELSE <<"Okay", "Another example", "Help">>

generateSuggestions(service, action) ==
    IF ~truthy(service) THEN <<"Tell me more", "Undo", "Help">>
    ELSE LET s == toLowerCase(valueOf(service)) IN
         IF s = Str_gmail THEN <<"Show inbox", "Draft a reply", "Search email from Alex">>
         ELSE IF s = Str_calendar THEN <<"View my week", "Create event", "Reschedule meeting">>
         ELSE IF s = Str_tasks THEN <<"List tasks", "Add a task", "Mark task done">>
         ELSE IF s = Str_keep THEN <<"New note", "Search notes", "Make a checklist">>
         ELSE IF s = Str_maps THEN <<"Nearby cafes", "Traffic to work", "Best route home">>
         ELSE <<"Okay", "Another example", "Help">>

\* what the user can type into the textarea
TypedInputs == { <<" ">>, <<"Hello">>, <<" ", "Email", " ", "John", " ">> }

\* the texts of the quick-reply buttons, as the textarea holds them
quickReplyText(s) == <<s>>

\* the service names a backend response may carry in intent.service
ServiceNames ==
    { Str_gmail, <<"G", "M", "A", "I", "L">>,
      <<"C", "a", "l", "e", "n", "d", "a", "r">>,
      Str_tasks, <<"K", "e", "e", "p">>, <<"M", "a", "p", "s">>,
      <<"d", "r", "i", "v", "e">>, <<>> }

\* PromptResponse / ApiResponse<PromptResponse> values api.sendPrompt resolves with:
\* every intent with one reply text, and every reply text with one intent
SuccessResponses ==
    [ settle : {"resolve"}, error : {{}}, hasData : {TRUE},
      resultMessage : {{<<"Sent">>}}, message : {{<<"OK">>}},
      service : {{}} \cup {{n} : n \in ServiceNames},
      action : {{}, {<<"send_email">>}} ]
    \cup
    [ settle : {"resolve"}, error : {{}}, hasData : {TRUE},
      resultMessage : {{}, {<<>>}, {<<"Sent">>}}, message : {{<<>>}, {<<"OK">>}},
      service : {{}}, action : {{}} ]

NoData == [resultMessage |-> {}, message |-> {}, service |-> {}, action |-> {}]

FailureResponses ==
    { [settle |-> "resolve", error |-> {<<"Network error">>}, hasData |-> FALSE] @@ NoData,
      [settle |-> "resolve", error |-> {}, hasData |-> FALSE] @@ NoData,
      [settle |-> "resolve", error |-> {<<"Bad">>}, hasData |-> TRUE]
          @@ [resultMessage |-> {<<"Sent">>}, message |-> {<<"OK">>},
              service |-> {Str_gmail}, action |-> {}],
      [settle |-> "reject", error |-> {<<"boom">>}, hasData |-> FALSE] @@ NoData,
      [settle |-> "reject", error |-> {}, hasData |-> FALSE] @@ NoData }

NoResponse == [settle |-> "none", error |-> {}, hasData |-> FALSE] @@ NoData

\* const newId = () => `${Date.now()}-${Math.random()...}`
newId == idCounter + 1

\* const addMessage = (msg) => setMessages(prev => [...prev, msg])
addMessage(prev, msg) == Append(prev, msg)

Message(id, role, text, status, suggestions) ==
    [id |-> id, role |-> role, text |-> text, status |-> status,
     suggestions |-> suggestions]

\* onChange={(e) => setInput(e.target.value)}
onChangeInput(v) ==
    /\ input' = v
    /\ UNCHANGED <<agentMessages, isLoading, sendPromptCall, lastResponse,
                   onErrorCalls, idCounter, submits, deletes>>

\* const handleQuickReply = (text) => { setInput(text); ... }
handleQuickReply(text) ==
    /\ \E i \in 1..Len(agentMessages) :
          /\ agentMessages[i].role = "assistant"
          /\ \E k \in 1..Len(agentMessages[i].suggestions) :
                agentMessages[i].suggestions[k] = text
    /\ input' = quickReplyText(text)
    /\ UNCHANGED <<agentMessages, isLoading, sendPromptCall, lastResponse,
                   onErrorCalls, idCounter, submits, deletes>>

\* const removeMessage = (id) => setMessages(prev => prev.filter(m => m.id !== id))
removeMessage(id) ==
    /\ \E i \in 1..Len(agentMessages) : agentMessages[i].id = id
    /\ deletes < MaxDeletes
    /\ agentMessages' = SelectSeq(agentMessages, LAMBDA m : m.id # id)
    /\ deletes' = deletes + 1
    /\ UNCHANGED <<input, isLoading, sendPromptCall, lastResponse, onErrorCalls,
                   idCounter, submits>>

\* handleSubmit, up to its await of api.sendPrompt(trimmed)
handleSubmit ==
    LET trimmed == trim(input) IN
    /\ submits < MaxSubmits
    /\ ~(trimmed = <<>> \/ isLoading)
    /\ agentMessages' =
          addMessage(agentMessages, Message(newId, "user", trimmed, "sent", <<>>))
    /\ idCounter' = newId
    /\ input' = <<>>
    /\ isLoading' = TRUE
    /\ sendPromptCall' = {trimmed}
    /\ submits' = submits + 1
    /\ UNCHANGED <<lastResponse, onErrorCalls, deletes>>

\* handleSubmit with input blank or a send in progress: the early return of line 133
handleSubmitIgnored ==
    /\ trim(input) = <<>> \/ isLoading
    /\ UNCHANGED agentVars

\* res.data.result?.message || res.data.message || 'Done.'
assistantText(res) ==
    IF truthy(res.resultMessage) THEN valueOf(res.resultMessage)
    ELSE IF truthy(res.message) THEN valueOf(res.message)
    ELSE <<"Done.">>

\* the message of the error the try block of handleSubmit ends with, if any:
\* a rejection of sendPrompt, or new Error(res.error || 'Unknown error')
thrownMessage(res) ==
    IF res.settle = "reject" THEN res.error
    ELSE IF truthy(res.error) THEN res.error
    ELSE {<<"Unknown error">>}

throws(res) == res.settle = "reject" \/ truthy(res.error) \/ ~res.hasData

\* const msg = err?.message || 'Failed to send message'
catchMessage(res) ==
    IF truthy(thrownMessage(res)) THEN valueOf(thrownMessage(res))
    ELSE <<"Failed to send message">>

\* handleSubmit from the point api.sendPrompt settles: try, catch and finally
sendPromptSettles(res) ==
    /\ sendPromptCall # {}
    /\ sendPromptCall' = {}
    /\ lastResponse' = res
    /\ idCounter' = newId
    /\ IF throws(res)
       THEN /\ onErrorCalls' = Append(onErrorCalls, catchMessage(res))
            /\ agentMessages' =
                  addMessage(agentMessages,
                             Message(newId, "assistant",
                                     <<"Error: ">> \o catchMessage(res), "error", <<>>))
       ELSE /\ onErrorCalls' = onErrorCalls
            /\ agentMessages' =
                  addMessage(agentMessages,
                             Message(newId, "assistant", assistantText(res), "delivered",
                                     generateSuggestions(res.service, res.action)))
    /\ isLoading' = FALSE
    /\ UNCHANGED <<input, submits, deletes>>

AgentInit ==
    /\ agentMessages = <<>>
    /\ input = <<>>
    /\ isLoading = FALSE
    /\ sendPromptCall = {}
    /\ lastResponse = NoResponse
    /\ onErrorCalls = <<>>
    /\ idCounter = NoId
    /\ submits = 0
    /\ deletes = 0

(***************************************************************************)
(* The lume-agent API client: TokenManager and LumeApiClient.              *)
(***************************************************************************)
\* TokenManager.getToken: the cookie first, localStorage otherwise
getToken == IF cookieToken # NoToken THEN cookieToken ELSE lsToken

PromiseIds == 1..MaxRefreshes

RequestIds == 1..NumRequests

\* a promise refreshToken() has not created yet
UnusedPromise ==
    [state |-> "unused", value |-> NoToken, retry |-> FALSE, sent |-> 0,
     awaits |-> NoPromise]

\* a public API call that has not been made yet
IdleRequest ==
    [pc |-> "idle", retry |-> FALSE, sent |-> <<>>, awaits |-> NoPromise,
     newToken |-> NoToken, error |-> "", status |-> 0]

hasFreePromise == \E p \in PromiseIds : promises[p].state = "unused"

freePromise == CHOOSE p \in PromiseIds :
    /\ promises[p].state = "unused"
    /\ \A q \in PromiseIds : promises[q].state = "unused" => p <= q

\* if (response.status === 401 && !config._retry), for every status
refreshesAlways(status, retry) == status = 401

shouldRefresh(status, retry) == status = 401 /\ ~retry

\* if (this.isRefreshing) return this.refreshPromise!
joinsNever == FALSE

joinsRefresh == isRefreshing

\* this.refreshToken(), up to the first await of its async body: the promise
\* the caller gets, and the client's fields and promises afterwards
refreshToken ==
    IF joinsRefresh
    THEN [promise |-> refreshPromise, isRefreshing |-> isRefreshing,
          refreshPromise |-> refreshPromise, promises |-> promises]
    ELSE IF lsRefreshToken = NoToken
    THEN \* throw new Error('No refresh token available'): finally runs, then
         \* the rejected promise is assigned to this.refreshPromise
         [promise |-> freePromise, isRefreshing |-> FALSE,
          refreshPromise |-> freePromise,
          promises |-> [promises EXCEPT ![freePromise].state = "rejected"]]
    ELSE \* POST /auth/refresh is sent
         [promise |-> freePromise, isRefreshing |-> TRUE,
          refreshPromise |-> freePromise,
          promises |-> [promises EXCEPT ![freePromise].state = "fetch",
                                        ![freePromise].sent = 1]]

\* the bound on promises: a call of refreshToken() that creates one needs a free one
canCallRefreshToken == joinsRefresh \/ hasFreePromise

\* the promises rejected when promise p is: p, and every promise whose own
\* refresh request was waiting for a rejected one
RECURSIVE rejectedWith(_, _)
rejectedWith(P, ps) ==
    LET more == { q \in PromiseIds :
                     P[q].state = "awaiting" /\ P[q].awaits \in ps } IN
    IF more \subseteq ps THEN ps ELSE rejectedWith(P, ps \cup more)

\* a waiter of a fulfilled refresh: return this.makeRequest(retryConfig)
resend(req, newToken, stored) ==
    [req EXCEPT !.pc = "fetch", !.newToken = newToken,
                !.sent = Append(@, IF stored # NoToken THEN stored ELSE newToken)]

\* a waiter of a rejected refresh that throws the error of its response
failRefreshAsHttpError(req) ==
    [req EXCEPT !.pc = "failed", !.error = "HTTP error"]

\* a waiter of a rejected refresh: throw createHttpError(.., 'Token refresh failed')
failRefresh(req) ==
    [req EXCEPT !.pc = "failed", !.error = "Token refresh failed"]

\* a public API method calls makeRequest: the request is sent with the stored token
startRequest(r) ==
    /\ requests[r].pc = "idle"
    /\ requests' = [requests EXCEPT ![r].pc = "fetch", ![r].sent = <<getToken>>]
    /\ UNCHANGED <<lsToken, cookieToken, lsRefreshToken, isRefreshing, refreshPromise,
                   promises, issued, locationHref>>

\* fetch() of an API request rejects (no response): makeRequest rethrows
fetchFails(r) ==
    /\ requests[r].pc = "fetch"
    /\ requests' = [requests EXCEPT ![r].pc = "failed", ![r].error = "network",
                                    ![r].status = 0]
    /\ UNCHANGED <<lsToken, cookieToken, lsRefreshToken, isRefreshing, refreshPromise,
                   promises, issued, locationHref>>

\* the response of an API request arrives: makeRequest from line 380 on
fetchResponds(r, status) ==
    /\ requests[r].pc = "fetch"
    /\ IF shouldRefresh(status, requests[r].retry)
       THEN /\ canCallRefreshToken
            /\ LET c == refreshToken IN
               IF c.promises[c.promise].state = "rejected"
               THEN \* the awaited promise is rejected: handleAuthFailure, throw
                    /\ requests' = [requests EXCEPT
                          ![r] = failRefresh([@ EXCEPT !.retry = TRUE,
                                                       !.status = status,
                                                       !.awaits = c.promise])]
                    /\ lsToken' = NoToken
                    /\ cookieToken' = NoToken
                    /\ lsRefreshToken' = NoToken
                    /\ locationHref' = "/login"
                    /\ isRefreshing' = c.isRefreshing
                    /\ refreshPromise' = c.refreshPromise
                    /\ promises' = c.promises
               ELSE /\ requests' = [requests EXCEPT ![r].pc = "awaiting",
                                                    ![r].retry = TRUE,
                                                    ![r].status = status,
                                                    ![r].awaits = c.promise]
                    /\ isRefreshing' = c.isRefreshing
                    /\ refreshPromise' = c.refreshPromise
                    /\ promises' = c.promises
                    /\ UNCHANGED <<lsToken, cookieToken, lsRefreshToken, locationHref>>
       ELSE /\ requests' = [requests EXCEPT
                  ![r].pc = IF status = 200 THEN "done" ELSE "failed",
                  ![r].error = IF status = 200 THEN "" ELSE "HTTP error",
                  ![r].status = status]
            /\ UNCHANGED <<lsToken, cookieToken, lsRefreshToken, isRefreshing,
                           refreshPromise, promises, locationHref>>
    /\ UNCHANGED issued

\* the async body of refreshToken() ends with an error: finally, and every
\* waiter of the promise runs handleAuthFailure and fails
refreshRejects(p, P) ==
    LET rej == rejectedWith(P, {p})
        waiting == { r \in RequestIds :
                        requests[r].pc = "awaiting" /\ requests[r].awaits \in rej } IN
    /\ promises' = [q \in PromiseIds |->
                       IF q \in rej THEN [P[q] EXCEPT !.state = "rejected"] ELSE P[q]]
    /\ requests' = [r \in RequestIds |->
                       IF r \in waiting THEN failRefresh(requests[r]) ELSE requests[r]]
    /\ isRefreshing' = FALSE
    /\ refreshPromise' = NoPromise
    /\ IF waiting # {} \/ rej # {p}
       THEN /\ lsToken' = NoToken
            /\ cookieToken' = NoToken
            /\ lsRefreshToken' = NoToken
            /\ locationHref' = "/login"
       ELSE UNCHANGED <<lsToken, cookieToken, lsRefreshToken, locationHref>>
    /\ UNCHANGED issued

\* fetch() of POST /auth/refresh rejects (no response)
refreshFetchFails(p) ==
    /\ promises[p].state = "fetch"
    /\ refreshRejects(p, promises)

\* the response of POST /auth/refresh arrives: makeRequest from line 380 on, and
\* then the rest of the async body of refreshToken()
refreshResponds(p, status, newRefreshToken) ==
    /\ promises[p].state = "fetch"
    /\ IF status = 200
       THEN LET tok == issued + 1 IN
            /\ issued' = tok
            /\ lsToken' = tok
            /\ cookieToken' = tok
            /\ lsRefreshToken' =
                  IF newRefreshToken # NoToken THEN newRefreshToken ELSE lsRefreshToken
            /\ isRefreshing' = FALSE
            /\ refreshPromise' = NoPromise
            /\ promises' = [q \in PromiseIds |->
                  IF q = p THEN [promises[q] EXCEPT !.state = "fulfilled", !.value = tok]
                  ELSE IF promises[q].state = "awaiting" /\ promises[q].awaits = p
                  THEN [promises[q] EXCEPT !.state = "fetch", !.sent = @ + 1]
                  ELSE promises[q]]
            /\ requests' = [r \in RequestIds |->
                  IF requests[r].pc = "awaiting" /\ requests[r].awaits = p
                  THEN resend(requests[r], tok, tok)
                  ELSE requests[r]]
            /\ UNCHANGED locationHref
       ELSE IF shouldRefresh(status, promises[p].retry)
       THEN /\ canCallRefreshToken
            /\ LET c == refreshToken IN
               IF c.promises[c.promise].state = "rejected"
               THEN refreshRejects(p, [c.promises EXCEPT ![p].retry = TRUE])
               ELSE \* the refresh request waits for a refresh: for itself when
                    \* c.promise = p
                    /\ promises' = [c.promises EXCEPT ![p].state = "awaiting",
                                                      ![p].retry = TRUE,
                                                      ![p].awaits = c.promise]
                    /\ isRefreshing' = c.isRefreshing
                    /\ refreshPromise' = c.refreshPromise
                    /\ UNCHANGED <<lsToken, cookieToken, lsRefreshToken, locationHref,
                                   requests, issued>>
       ELSE refreshRejects(p, promises)

ClientInit ==
    /\ lsToken \in {NoToken, 1}
    /\ cookieToken = lsToken
    /\ lsRefreshToken \in {NoToken, 1}
    /\ isRefreshing = FALSE
    /\ refreshPromise = NoPromise
    /\ promises = [p \in PromiseIds |-> UnusedPromise]
    /\ requests = [r \in RequestIds |-> IdleRequest]
    /\ issued = 1
    /\ locationHref = "/"

(***************************************************************************)
(* lume_frontend (Home, PermissionModal, ChatInterface) and the Django     *)
(* backend it talks to.  The backend's handlers are not among the sources; *)
(* they are modelled from the specification and the READMEs.               *)
(***************************************************************************)
\* the browsers; the Google account a browser logs in with carries its name
Clients == {"A", "B"}

\* the browser that acts in SpecOAuth; the other one stays closed there
OAuthClients == {"A"}

\* the keys of SERVICE_INFO, which are the keys of detect_services' result
Services == {"email", "calendar", "tasks", "keep"}

ServiceOrder == <<"email", "calendar", "tasks", "keep">>

\* what the service detector reports for the messages of a run
DetectedSets == {{}, {"email"}, {"email", "calendar"}}

\* minutes an OAuthState row stays valid
StateTTL == 10

\* the minutes between two looks at the clock: long enough for a state to expire
TickMinutes == StateTTL + 1

MsPerMinute == 60000

\* Date.now() at the last look at the clock
DateNow == now * MsPerMinute

\* conversationId null
NoConv == 0

\* what the user types into the message box
ChatInputs == {<<"h", "i">>, <<" ", "h", "i", " ">>}

Elems(seq) == {seq[i] : i \in 1..Len(seq)}

\* a set of service names as the list the backend sends
toList(S) == SelectSeq(ServiceOrder, LAMBDA p : p \in S)

\* prev.slice(0, -1)
sliceLast(prev) == SubSeq(prev, 1, Len(prev) - 1)

(***************************************************************************)
(* The backend: OAuthState rows, users, sessions.                          *)
(***************************************************************************)
\* the state parameters a callback request carries: one the backend has issued,
\* or number 0, which it never issues
PresentableStates == {<<"rnd", n>> : n \in 0..(nextState - 1)}

canIssueState == nextState <= MaxTokens

\* the row created at redirect time: a fresh random token and its expiry
newOAuthState(kind, account, services) ==
    [state |-> <<"rnd", nextState>>, kind |-> kind, user |-> account,
     services |-> services, expires_at |-> now + StateTTL]

\* a lookup that takes any stored row of the kind for a match
findStateLoose(s, kind) == {r \in oauthStates : r.kind = kind}

findState(s, kind) == {r \in oauthStates : r.state = s /\ r.kind = kind}

\* an expiry check that never fires
isExpiredNever(r) == FALSE

isExpired(r) == now > r.expires_at

validState(s, kind) == {r \in findState(s, kind) : ~isExpired(r)}

callbackOutcome(s, kind, ok) ==
    IF validState(s, kind) # {} THEN (IF ok THEN "accepted" ELSE "exchange_failed")
    ELSE IF \E r \in oauthStates : r.state = s /\ isExpired(r) THEN "expired"
    ELSE "unknown"

isAuthenticated(c) == sessions[c] /\ users[c].exists

\* GET /api/user/info/: {} when not authenticated
getUserInfo(c) ==
    IF isAuthenticated(c) THEN {[permissions |-> users[c].perms]} ELSE {}

(***************************************************************************)
(* Home and PermissionModal (page.tsx).                                    *)
(***************************************************************************)
EmptySelection == [p \in {} |-> TRUE]

\* useState initial value of selectedPermissions
initialSelection(required) == [p \in Elems(required) |-> TRUE]

\* a modal shown whether or not a user is logged in
isModalRenderedWithoutUser(ld, u, show) == ~ld /\ show

\* Home renders the modal past the loading and !user returns only
isModalRendered(ld, u, show) == ~ld /\ u # {} /\ show

modalRendered(c) == isModalRendered(loading[c], user[c], showPermissionModal[c])

\* the services the modal shows a card for
offered(c) == {p \in Elems(requiredPermissions[c]) : p \in Services}

\* selectedPermissions after a render of Home: kept while the modal stays
\* mounted, initialised when it mounts, gone when it unmounts
PermissionModalState(c, ld, u, show, required) ==
    IF ~isModalRendered(ld, u, show) THEN EmptySelection
    ELSE IF modalRendered(c) THEN selectedPermissions[c]
    ELSE initialSelection(required)

\* handlePermissionRequest that asks for every service
handlePermissionRequestAll(permissions, state) ==
    [requiredPermissions |-> ServiceOrder, oauthState |-> state,
     showPermissionModal |-> TRUE]

handlePermissionRequest(permissions, state) ==
    [requiredPermissions |-> permissions, oauthState |-> state,
     showPermissionModal |-> TRUE]

\* checkAuth() calls the mount effect makes: one at once, one more after 1500 ms
\* when the page was loaded from a callback redirect
checkAuthCalls(params) ==
    IF params \in {"auth_success", "service_perms_granted"} THEN 2 ELSE 1

\* the browser leaves the page it shows: every component state is gone
setPage(c, loc, url, params, pending) ==
    /\ location' = [location EXCEPT ![c] = loc]
    /\ authUrl' = [authUrl EXCEPT ![c] = url]
    /\ urlParams' = [urlParams EXCEPT ![c] = params]
    /\ user' = [user EXCEPT ![c] = {}]
    /\ loading' = [loading EXCEPT ![c] = TRUE]
    /\ currentConversationId' = [currentConversationId EXCEPT ![c] = NoConv]
    /\ showPermissionModal' = [showPermissionModal EXCEPT ![c] = FALSE]
    /\ requiredPermissions' = [requiredPermissions EXCEPT ![c] = <<>>]
    /\ oauthState' = [oauthState EXCEPT ![c] = <<>>]
    /\ selectedPermissions' = [selectedPermissions EXCEPT ![c] = EmptySelection]
    /\ checkAuthPending' = [checkAuthPending EXCEPT ![c] = pending]
    /\ reported' = [reported EXCEPT ![c] = {}]
    /\ lastMissing' = [lastMissing EXCEPT ![c] = <<>>]
    /\ messages' = [messages EXCEPT ![c] = <<>>]
    /\ chatLoading' = [chatLoading EXCEPT ![c] = FALSE]
    /\ loadingMessages' = [loadingMessages EXCEPT ![c] = FALSE]
    /\ sendPending' = [sendPending EXCEPT ![c] = {}]
    /\ loadPending' = [loadPending EXCEPT ![c] = {}]
    /\ UNCHANGED sends

\* the page is loaded: Home mounts and its effect runs
loadPage(c, params) == setPage(c, "app", <<>>, params, checkAuthCalls(params))

\* the user opens the application, or comes back to it from Google's page
openApp(c) ==
    /\ location[c] \in {"closed", "google"}
    /\ loadPage(c, "none")
    /\ UNCHANGED backendVars

\* checkAuth, from the answer of getUserInfo on
checkAuthResponds(c) ==
    /\ location[c] = "app"
    /\ checkAuthPending[c] > 0
    /\ LET response == getUserInfo(c)
           u == IF response # {} THEN response ELSE user[c]
       IN  /\ user' = [user EXCEPT ![c] = u]
           /\ selectedPermissions' =
                 [selectedPermissions EXCEPT ![c] =
                     PermissionModalState(c, FALSE, u, showPermissionModal[c],
                                          requiredPermissions[c])]
    /\ loading' = [loading EXCEPT ![c] = FALSE]
    /\ checkAuthPending' = [checkAuthPending EXCEPT ![c] = @ - 1]
    /\ UNCHANGED <<backendVars, location, authUrl, urlParams, currentConversationId,
                   showPermissionModal, requiredPermissions, oauthState,
                   reported, lastMissing, chatVars>>

\* checkAuth, getUserInfo throwing
checkAuthFails(c) ==
    /\ location[c] = "app"
    /\ checkAuthPending[c] > 0
    /\ loading' = [loading EXCEPT ![c] = FALSE]
    /\ selectedPermissions' =
          [selectedPermissions EXCEPT ![c] =
              PermissionModalState(c, FALSE, user[c], showPermissionModal[c],
                                   requiredPermissions[c])]
    /\ checkAuthPending' = [checkAuthPending EXCEPT ![c] = @ - 1]
    /\ UNCHANGED <<backendVars, location, authUrl, urlParams, user,
                   currentConversationId, showPermissionModal, requiredPermissions,
                   oauthState, reported, lastMissing, chatVars>>

\* handleLogin with POST /api/oauth/initiate/ answering: the backend stores a
\* state for the base scopes and the browser follows auth_url
handleLogin(c) ==
    /\ location[c] = "app" /\ ~loading[c] /\ user[c] = {}
    /\ canIssueState
    /\ oauthStates' = oauthStates \cup {newOAuthState("base", c, {})}
    /\ nextState' = nextState + 1
    /\ setPage(c, "google", <<"rnd", nextState>>, "none", 0)
    /\ UNCHANGED <<now, users, sessions, conversations, nextMsgId, lastCallback>>

\* GET /oauth/callback/?state=s, and the page the backend redirects to
oauthCallback(c, s, ok) ==
    LET outcome == callbackOutcome(s, "base", ok)
        accepted == outcome = "accepted"
    IN  /\ oauthStates' = oauthStates \ validState(s, "base")
        /\ users' = IF accepted THEN [users EXCEPT ![c].exists = TRUE] ELSE users
        /\ sessions' = IF accepted THEN [sessions EXCEPT ![c] = TRUE] ELSE sessions
        /\ lastCallback' = outcome
        /\ loadPage(c, IF accepted THEN "auth_success" ELSE "error")
        /\ UNCHANGED <<now, nextState, conversations, nextMsgId>>

\* GET /oauth/service-callback/?state=s, and the page the backend redirects to
serviceCallback(c, s, ok) ==
    LET outcome == callbackOutcome(s, "service", ok)
        accepted == outcome = "accepted"
        rows == validState(s, "service")
    IN  /\ oauthStates' = oauthStates \ rows
        /\ users' = IF accepted
                    THEN [a \in Clients |->
                            [users[a] EXCEPT !.perms =
                                @ \cup UNION {r.services : r \in {q \in rows : q.user = a}}]]
                    ELSE users
        /\ lastCallback' = outcome
        /\ loadPage(c, IF accepted THEN "service_perms_granted" ELSE "error")
        /\ UNCHANGED <<now, sessions, nextState, conversations, nextMsgId>>

\* time passes: the clock is looked at every TickMinutes
Tick ==
    /\ now + TickMinutes <= MaxTime
    /\ now' = now + TickMinutes
    /\ UNCHANGED <<users, sessions, oauthStates, nextState, conversations, nextMsgId,
                   lastCallback, homeVars, chatVars>>

\* expired OAuthState rows are deleted
gcExpired ==
    /\ \E r \in oauthStates : isExpired(r)
    /\ oauthStates' = {r \in oauthStates : ~isExpired(r)}
    /\ UNCHANGED <<now, users, sessions, nextState, conversations, nextMsgId,
                   lastCallback, homeVars, chatVars>>

\* handleLogout with POST /api/user/logout/ answering; Sidebar, ChatInterface
\* and the modal unmount
handleLogout(c) ==
    /\ location[c] = "app" /\ ~loading[c] /\ user[c] # {}
    /\ sessions' = [sessions EXCEPT ![c] = FALSE]
    /\ user' = [user EXCEPT ![c] = {}]
    /\ currentConversationId' = [currentConversationId EXCEPT ![c] = NoConv]
    /\ selectedPermissions' = [selectedPermissions EXCEPT ![c] = EmptySelection]
    /\ messages' = [messages EXCEPT ![c] = <<>>]
    /\ chatLoading' = [chatLoading EXCEPT ![c] = FALSE]
    /\ loadingMessages' = [loadingMessages EXCEPT ![c] = FALSE]
    /\ loadPending' = [loadPending EXCEPT ![c] = {}]
    /\ sendPending' = [sendPending EXCEPT ![c] =
                          {[p EXCEPT !.alive = FALSE] : p \in sendPending[c]}]
    /\ UNCHANGED <<now, users, oauthStates, nextState, conversations, nextMsgId,
                   lastCallback, location, authUrl, urlParams, loading,
                   showPermissionModal, requiredPermissions, oauthState,
                   checkAuthPending, reported, lastMissing, sends>>

\* a handleLogout that resets the page whether the request failed or not
handleLogoutFailsClears(c, served) ==
    /\ location[c] = "app" /\ ~loading[c] /\ user[c] # {}
    /\ sessions' = [sessions EXCEPT ![c] = IF served THEN FALSE ELSE @]
    /\ user' = [user EXCEPT ![c] = {}]
    /\ currentConversationId' = [currentConversationId EXCEPT ![c] = NoConv]
    /\ UNCHANGED <<now, users, oauthStates, nextState, conversations, nextMsgId,
                   lastCallback, location, authUrl, urlParams, loading,
                   showPermissionModal, requiredPermissions, oauthState,
                   selectedPermissions, checkAuthPending, reported, lastMissing,
                   chatVars>>

\* handleLogout with apiClient.logout() rejecting: the catch block; served
\* tells whether the backend had ended the session before the request failed
handleLogoutFails(c, served) ==
    /\ location[c] = "app" /\ ~loading[c] /\ user[c] # {}
    /\ sessions' = [sessions EXCEPT ![c] = IF served THEN FALSE ELSE @]
    /\ UNCHANGED <<now, users, oauthStates, nextState, conversations, nextMsgId,
                   lastCallback, homeVars, chatVars>>

\* PermissionModal handleToggle, from a click on the card of permission
handleToggle(c, permission) ==
    /\ location[c] = "app" /\ modalRendered(c)
    /\ permission \in offered(c)
    /\ LET prev == selectedPermissions[c]
           was == permission \in DOMAIN prev /\ prev[permission]
       IN  selectedPermissions' =
              [selectedPermissions EXCEPT ![c] =
                  [q \in DOMAIN prev \cup {permission} |->
                      IF q = permission THEN ~was ELSE prev[q]]]
    /\ UNCHANGED <<backendVars, location, authUrl, urlParams, user, loading,
                   currentConversationId, showPermissionModal, requiredPermissions,
                   oauthState, checkAuthPending, reported,
                   lastMissing, chatVars>>

\* the modal's Cancel and X buttons
onCancel(c) ==
    /\ location[c] = "app" /\ modalRendered(c)
    /\ showPermissionModal' = [showPermissionModal EXCEPT ![c] = FALSE]
    /\ selectedPermissions' = [selectedPermissions EXCEPT ![c] = EmptySelection]
    /\ UNCHANGED <<backendVars, location, authUrl, urlParams, user, loading,
                   currentConversationId, requiredPermissions, oauthState,
                   checkAuthPending, reported, lastMissing, chatVars>>

\* the services a Record<string, boolean> selects
selectedServices(permissions) == {p \in DOMAIN permissions : permissions[p]}

\* what handlePermissionGrant does to the user Home shows: nothing
userAfterGrantOptimistic(u, permissions) ==
    {[permissions |-> v.permissions \cup selectedServices(permissions)] : v \in u}

userAfterGrant(u, permissions) == u

\* the Grant Access button (disabled when nothing is selected): handleGrant and
\* handlePermissionGrant.  When POST /api/oauth/request-service-permissions/
\* answers, the backend has stored a state for the selected services and the
\* browser follows auth_url; when it fails, the catch logs the error
handlePermissionGrant(c, ok) ==
    /\ location[c] = "app" /\ modalRendered(c)
    /\ selectedServices(selectedPermissions[c]) # {}
    /\ IF ok /\ isAuthenticated(c) /\ canIssueState
       THEN /\ oauthStates' = oauthStates \cup
                  {newOAuthState("service", c,
                                 selectedServices(selectedPermissions[c]) \cap Services)}
            /\ nextState' = nextState + 1
            /\ setPage(c, "google", <<"rnd", nextState>>, "none", 0)
            /\ UNCHANGED <<now, users, sessions, conversations, nextMsgId, lastCallback>>
       ELSE /\ user' = [user EXCEPT ![c] = userAfterGrant(@, selectedPermissions[c])]
            /\ UNCHANGED <<backendVars, location, authUrl, urlParams, loading,
                           currentConversationId, showPermissionModal,
                           requiredPermissions, oauthState, selectedPermissions,
                           checkAuthPending, reported, lastMissing, chatVars>>

(***************************************************************************)
(* ChatInterface (lume_frontend) and the chat endpoints.                   *)
(***************************************************************************)
\* a message the component makes itself; its id, Date.now(), serves as a
\* React key only and is left out
LocalMessage(role, content) ==
    [origin |-> "local", id |-> NoId, role |-> role, content |-> content]

\* a ChatMessage row as the backend returns it
ServerMessage(id, role, content) ==
    [origin |-> "server", id |-> id, role |-> role, content |-> content]

permMessage == LocalMessage("assistant", <<"I need additional permissions">>)

errorMessage == LocalMessage("system", <<"Failed to send message. Please try again.">>)

chatRendered(c) == location[c] = "app" /\ ~loading[c] /\ user[c] # {}

\* handleSendMessage up to the await; text is what the message box holds
handleSendMessage(c, text) ==
    /\ chatRendered(c)
    /\ ~(trim(text) = <<>> \/ chatLoading[c])
    /\ chatLoading' = [chatLoading EXCEPT ![c] = TRUE]
    /\ messages' = [messages EXCEPT ![c] = Append(@, LocalMessage("user", trim(text)))]
    /\ sendPending' = [sendPending EXCEPT ![c] =
                          @ \cup {[conv |-> currentConversationId[c],
                                   content |-> trim(text), alive |-> TRUE]}]
    /\ sends' = sends + 1
    /\ UNCHANGED <<backendVars, homeVars, loadingMessages, loadPending>>

\* POST /api/chat/send/ answers and handleSendMessage runs on: the backend
\* stores the user message, finds the services the message needs and answers
\* with an assistant message or with the permissions that are missing
sendResponds(c, p, detected, withAssistant) ==
    /\ location[c] = "app"
    /\ p \in sendPending[c]
    /\ isAuthenticated(c)
    /\ LET created == p.conv = NoConv
           cid == IF created THEN Len(conversations) + 1 ELSE p.conv
           missing == detected \ users[c].perms
           requires == missing # {}
           user_message == ServerMessage(nextMsgId, "user", p.content)
           assistant_message == ServerMessage(nextMsgId + 1, "assistant", <<"ok">>)
           stored == IF ~requires /\ withAssistant
                     THEN <<user_message, assistant_message>>
                     ELSE <<user_message>>
           shown == IF requires THEN <<user_message, permMessage>> ELSE stored
           convNow == IF created THEN cid ELSE currentConversationId[c]
           request == handlePermissionRequest(toList(missing), <<"perm_", DateNow>>)
       IN  /\ conversations' =
                 IF created
                 THEN Append(conversations, [owner |-> c, msgs |-> stored])
                 ELSE [conversations EXCEPT ![cid].msgs = @ \o stored]
           /\ nextMsgId' = nextMsgId + Len(stored)
           /\ currentConversationId' = [currentConversationId EXCEPT ![c] = convNow]
           /\ IF requires
              THEN /\ requiredPermissions' =
                         [requiredPermissions EXCEPT ![c] = request.requiredPermissions]
                   /\ oauthState' = [oauthState EXCEPT ![c] = request.oauthState]
                   /\ showPermissionModal' =
                         [showPermissionModal EXCEPT ![c] = request.showPermissionModal]
                   /\ selectedPermissions' =
                         [selectedPermissions EXCEPT ![c] =
                             PermissionModalState(c, loading[c], user[c],
                                                  request.showPermissionModal,
                                                  request.requiredPermissions)]
                   /\ reported' = [reported EXCEPT ![c] = @ \cup missing]
                   /\ lastMissing' = [lastMissing EXCEPT ![c] = toList(missing)]
              ELSE UNCHANGED <<requiredPermissions, oauthState, showPermissionModal,
                               selectedPermissions, reported, lastMissing>>
           /\ IF p.alive
              THEN /\ messages' = [messages EXCEPT ![c] = sliceLast(@) \o shown]
                   /\ chatLoading' = [chatLoading EXCEPT ![c] = FALSE]
                   /\ IF convNow # currentConversationId[c]
                      THEN /\ loadingMessages' = [loadingMessages EXCEPT ![c] = TRUE]
                           /\ loadPending' = [loadPending EXCEPT ![c] = @ \cup {convNow}]
                      ELSE UNCHANGED <<loadingMessages, loadPending>>
              ELSE UNCHANGED <<messages, chatLoading, loadingMessages, loadPending>>
    /\ sendPending' = [sendPending EXCEPT ![c] = @ \ {p}]
    /\ UNCHANGED <<now, users, sessions, oauthStates, nextState, lastCallback,
                   location, authUrl, urlParams, user, loading, checkAuthPending,
                   sends>>

\* apiClient.sendMessage throws: handleSendMessage's catch and finally
sendFails(c, p) ==
    /\ location[c] = "app"
    /\ p \in sendPending[c]
    /\ IF p.alive
       THEN /\ messages' = [messages EXCEPT ![c] = Append(sliceLast(@), errorMessage)]
            /\ chatLoading' = [chatLoading EXCEPT ![c] = FALSE]
       ELSE UNCHANGED <<messages, chatLoading>>
    /\ sendPending' = [sendPending EXCEPT ![c] = @ \ {p}]
    /\ UNCHANGED <<backendVars, homeVars, loadingMessages, loadPending, sends>>

\* GET /api/chat/conversations/k/ answers: loadMessages' try and finally
loadMessagesResponds(c, k) ==
    /\ location[c] = "app"
    /\ k \in loadPending[c]
    /\ isAuthenticated(c)
    /\ messages' = [messages EXCEPT ![c] = conversations[k].msgs]
    /\ loadingMessages' = [loadingMessages EXCEPT ![c] = FALSE]
    /\ loadPending' = [loadPending EXCEPT ![c] = @ \ {k}]
    /\ UNCHANGED <<backendVars, homeVars, chatLoading, sendPending, sends>>

\* apiClient.getConversationMessages throws: loadMessages' catch and finally
loadMessagesFails(c, k) ==
    /\ location[c] = "app"
    /\ k \in loadPending[c]
    /\ loadingMessages' = [loadingMessages EXCEPT ![c] = FALSE]
    /\ loadPending' = [loadPending EXCEPT ![c] = @ \ {k}]
    /\ UNCHANGED <<backendVars, homeVars, messages, chatLoading, sendPending, sends>>

\* Sidebar's New Chat: onConversationSelect(null), and ChatInterface's effect
handleNewChat(c) ==
    /\ chatRendered(c)
    /\ currentConversationId[c] # NoConv
    /\ currentConversationId' = [currentConversationId EXCEPT ![c] = NoConv]
    /\ messages' = [messages EXCEPT ![c] = <<>>]
    /\ UNCHANGED <<backendVars, location, authUrl, urlParams, user, loading,
                   showPermissionModal, requiredPermissions, oauthState,
                   selectedPermissions, checkAuthPending, reported,
                   lastMissing, chatLoading, loadingMessages, sendPending,
                   loadPending, sends>>

\* nobody has opened the application yet
WebInit ==
    /\ now = 0
    /\ users = [c \in Clients |-> [exists |-> FALSE, perms |-> {}]]
    /\ sessions = [c \in Clients |-> FALSE]
    /\ oauthStates = {}
    /\ nextState = 1
    /\ conversations = <<>>
    /\ nextMsgId = 1
    /\ lastCallback = "none"
    /\ location = [c \in Clients |-> "closed"]
    /\ authUrl = [c \in Clients |-> <<>>]
    /\ urlParams = [c \in Clients |-> "none"]
    /\ user = [c \in Clients |-> {}]
    /\ loading = [c \in Clients |-> TRUE]
    /\ currentConversationId = [c \in Clients |-> NoConv]
    /\ showPermissionModal = [c \in Clients |-> FALSE]
    /\ requiredPermissions = [c \in Clients |-> <<>>]
    /\ oauthState = [c \in Clients |-> <<>>]
    /\ selectedPermissions = [c \in Clients |-> EmptySelection]
    /\ checkAuthPending = [c \in Clients |-> 0]
    /\ reported = [c \in Clients |-> {}]
    /\ lastMissing = [c \in Clients |-> <<>>]
    /\ messages = [c \in Clients |-> <<>>]
    /\ chatLoading = [c \in Clients |-> FALSE]
    /\ loadingMessages = [c \in Clients |-> FALSE]
    /\ sendPending = [c \in Clients |-> {}]
    /\ loadPending = [c \in Clients |-> {}]
    /\ sends = 0

(***************************************************************************)
(* The backend's service detector (service_detector).  Its code is not     *)
(* among the sources; it is modelled from the specification: a linear      *)
(* keyword-substring scan over a fixed list of trigger words per service,  *)
(* any match wins, with false-positive exclusions.                         *)
(***************************************************************************)
\* the messages of the documentation's examples
Msg_EmailAndTask == <<"S", "e", "n", "d", " ", "a", "n", " ", "e", "m", "a", "i", "l", " ", "a", "n", "d", " ", "c", "r", "e", "a", "t", "e", " ", "a", " ", "t", "a", "s", "k">>

Msg_Note == <<"M", "a", "k", "e", " ", "a", " ", "n", "o", "t", "e">>

Msg_EmailAndCalendar == <<"E", "m", "a", "i", "l", " ", "a", "n", "d", " ", "c", "a", "l", "e", "n", "d", "a", "r">>

Msg_KeepInMind == <<"K", "e", "e", "p", " ", "i", "n", " ", "m", "i", "n", "d", " ", "a", " ", "m", "e", "e", "t", "i", "n", "g">>

BaseMessages == {Msg_EmailAndTask, Msg_Note, Msg_EmailAndCalendar, Msg_KeepInMind}

\* the messages detections are made on: each example as written, upper-cased
\* and lower-cased
DetectMessages ==
    BaseMessages \cup {toUpperCase(m) : m \in BaseMessages}
                 \cup {toLowerCase(m) : m \in BaseMessages}

\* the trigger words of each service, in scan order
TriggerWords ==
    [email |-> <<<<"e", "m", "a", "i", "l">>, <<"m", "a", "i", "l">>>>,
     calendar |-> <<<<"c", "a", "l", "e", "n", "d", "a", "r">>, <<"m", "e", "e", "t", "i", "n", "g">>>>,
     tasks |-> <<<<"t", "a", "s", "k">>>>,
     keep |-> <<<<"n", "o", "t", "e">>, <<"k", "e", "e", "p">>>>]

\* the phrases in which a trigger word does not count
Exclusions ==
    [email |-> <<>>, calendar |-> <<>>, tasks |-> <<>>,
     keep |-> <<<<"k", "e", "e", "p", " ", "i", "n", " ", "m", "i", "n", "d">>>>]

\* the word w stands in the text at position i
occursAt(text, w, i) ==
    /\ i + Len(w) - 1 <= Len(text)
    /\ SubSeq(text, i, i + Len(w) - 1) = w

\* the occurrence of w at position i lies inside an excluded phrase of service s
covered(text, s, w, i) ==
    \E k \in 1..Len(Exclusions[s]), j \in 1..Len(text) :
        /\ occursAt(text, Exclusions[s][k], j)
        /\ j <= i
        /\ i + Len(w) <= j + Len(Exclusions[s][k])

\* the word triggers service s somewhere in the text
matchesWord(text, s, w) ==
    \E i \in 1..Len(text) : occursAt(text, w, i) /\ ~covered(text, s, w, i)

RECURSIVE anyMatch(_, _, _)
\* the scan over the trigger words of service s from word k on: any match wins
anyMatch(text, s, k) ==
    IF k > Len(TriggerWords[s]) THEN FALSE
    ELSE IF matchesWord(text, s, TriggerWords[s][k]) THEN TRUE
    ELSE anyMatch(text, s, k + 1)

\* a normalisation that keeps the message's case
normaliseKeepCase(message) == message

\* the message as the scan sees it
normalise(message) == toLowerCase(message)

\* a detector that stops at the first service that matches
detectFirstMatch(message) ==
    LET text == normalise(message)
        hits == {i \in 1..Len(ServiceOrder) : anyMatch(text, ServiceOrder[i], 1)}
    IN  [s \in Services |->
            \E i \in hits : ServiceOrder[i] = s /\ \A j \in hits : i <= j]

\* detect_services(message): one flag per service
detect_services(message) ==
    LET text == normalise(message) IN [s \in Services |-> anyMatch(text, s, 1)]

\* a detection is made on message m
detect(m) ==
    /\ Len(detectLog) < MaxDetections
    /\ detectLog' = Append(detectLog, [message |-> m, result |-> detect_services(m)])

(***************************************************************************)
(* The public methods of LumeApiClient: what they return for what          *)
(* makeRequest did.                                                        *)
(***************************************************************************)
\* the public methods that return an ApiResponse; logout clears the tokens
\* whatever its request did
ApiMethods ==
    {"sendPrompt", "getTaskStatus", "getDetailedAuthStatus", "getServiceStatus",
     "getGoogleOAuthUrl", "healthCheck", "logout"}

\* the makeRequest calls the public methods make in SpecApi
ApiRequestIds == 1..NumApiCalls

\* ApiConfig.timeout, in milliseconds
ApiTimeout == 30000

\* config.timeout of the HttpRequestConfig a public method passes to
\* makeRequest: {} when the field is not set
configTimeout(method) == {}

\* no ApiResponse yet: settle tells whether the method's promise has resolved
\* or rejected, hasData whether the response has the data field
NoResult == [status |-> 0, error |-> {}, hasData |-> FALSE, settle |-> "none"]

\* a request the public methods have not made
\* a JWT as getAuthStatus sees it: whether atob and JSON.parse of its second
\* part succeed, and payload.exp ({} when the payload has no exp)
UnparsableJwt == [parses |-> FALSE, exp |-> {}]

NoAuthCheck ==
    [token |-> NoToken, jwt |-> UnparsableJwt, awaits |-> NoPromise,
     authenticated |-> {}, value |-> {}]

NoCall ==
    [method |-> "", pc |-> "none", overdue |-> FALSE, blank |-> FALSE, result |-> NoResult,
     auth |-> NoAuthCheck]

\* createHttpError(response, config, message): response is {} for null
createHttpError(response, message) ==
    [name |-> "Error",
     message |-> IF message # {} THEN valueOf(message)
                 ELSE <<"HTTP", IF response # {} THEN valueOf(response) ELSE 0, "Error">>,
     hasResponse |-> response # {},
     response |-> response,
     hasConfig |-> TRUE]

\* what fetch() throws when no response arrives
FetchTypeError ==
    [name |-> "TypeError", message |-> <<"Failed to fetch">>, hasResponse |-> FALSE,
     response |-> {}, hasConfig |-> FALSE]

\* the error makeRequest throws for a failed request
thrownBy(req) ==
    IF req.error = "network" THEN FetchTypeError
    ELSE IF req.error = "Request timeout"
    THEN createHttpError({}, {<<"Request timeout">>})
    ELSE IF req.error = "Token refresh failed"
    THEN createHttpError({req.status}, {<<"Token refresh failed">>})
    ELSE createHttpError({req.status}, {})

\* handleError(error)
handleError(error) ==
    IF error.hasResponse /\ error.response # {}
    THEN [message |-> error.message, status |-> valueOf(error.response), code |-> {}]
    ELSE IF error.hasResponse /\ error.hasConfig
    THEN [message |-> <<"Network error - please check your connection">>,
          status |-> 0, code |-> {"NETWORK_ERROR"}]
    ELSE [message |-> error.message, status |-> 500, code |-> {"UNKNOWN_ERROR"}]

\* what getTaskStatus throws for a blank task id
TaskIdRequired ==
    [name |-> "Error", message |-> <<"Task ID is required">>, hasResponse |-> FALSE,
     response |-> {}, hasConfig |-> FALSE]

\* a catch block that throws the error on
catchRethrows(error) ==
    LET apiError == handleError(error) IN
    [status |-> apiError.status, error |-> {apiError.message}, hasData |-> FALSE,
     settle |-> "reject"]

\* the catch block of a public method: the ApiResponse made of handleError's result
catchResult(error) ==
    LET apiError == handleError(error) IN
    [status |-> apiError.status, error |-> {apiError.message}, hasData |-> FALSE,
     settle |-> "resolve"]

\* a logout that reports the failure of its request
apiResponseLogoutWarns(method, req) ==
    IF req.pc = "done"
    THEN [status |-> IF method = "logout" THEN 200 ELSE req.status, error |-> {},
          hasData |-> method # "logout", settle |-> "resolve"]
    ELSE catchResult(thrownBy(req))

\* what a public method returns for the request makeRequest finished
apiResponse(method, req) ==
    IF method = "logout"
    THEN [status |-> 200, error |-> {}, hasData |-> FALSE, settle |-> "resolve"]
    ELSE IF req.pc = "done"
    THEN [status |-> req.status, error |-> {}, hasData |-> TRUE, settle |-> "resolve"]
    ELSE catchResult(thrownBy(req))

\* a public method is called and calls makeRequest
callMethod(r, method) ==
    /\ startRequest(r)
    /\ apiCalls' = [apiCalls EXCEPT ![r] = [NoCall EXCEPT !.method = method,
                                                          !.pc = "pending"]]

\* getTaskStatus(taskId) with a blank taskId: the throw inside the try and the
\* catch block; makeRequest is not called
getTaskStatusBlank(r) ==
    /\ apiCalls[r].pc = "none"
    /\ requests[r].pc = "idle"
    /\ apiCalls' = [apiCalls EXCEPT ![r] = [NoCall EXCEPT !.method = "getTaskStatus",
                                                          !.pc = "returned",
                                                          !.blank = TRUE,
                                                          !.result = catchResult(TaskIdRequired)]]
    /\ UNCHANGED clientVars

\* Math.floor(Date.now() / 1000) when getAuthStatus runs
CurrentTime == 1

JwtPayloads ==
    {UnparsableJwt, [parses |-> TRUE, exp |-> {}]}
        \cup {[parses |-> TRUE, exp |-> {e}] : e \in 0..MaxExp}

\* an expiry check that counts a token expired in the second it expires
isTokenExpiredAtExp(jwt) ==
    IF ~jwt.parses THEN TRUE
    ELSE IF jwt.exp = {} THEN FALSE
    ELSE valueOf(jwt.exp) <= CurrentTime

\* TokenManager.isTokenExpired(token): payload.exp < currentTime, false when
\* exp is undefined, true when the token cannot be parsed
isTokenExpired(jwt) ==
    IF ~jwt.parses THEN TRUE
    ELSE IF jwt.exp = {} THEN FALSE
    ELSE valueOf(jwt.exp) < CurrentTime

\* getAuthStatus() up to its first await, for a stored token that reads as jwt
getAuthStatus(r, jwt) ==
    LET check == [NoAuthCheck EXCEPT !.token = getToken, !.jwt = jwt]
        call == [NoCall EXCEPT !.method = "getAuthStatus"] IN
    /\ apiCalls[r].pc = "none"
    /\ requests[r].pc = "idle"
    /\ IF getToken = NoToken
       THEN /\ apiCalls' = [apiCalls EXCEPT
                   ![r] = [call EXCEPT !.pc = "returned",
                                       !.auth = [check EXCEPT !.value = {FALSE}]]]
            /\ UNCHANGED clientVars
       ELSE IF isTokenExpired(jwt)
       THEN /\ canCallRefreshToken
            /\ LET c == refreshToken IN
               /\ apiCalls' = [apiCalls EXCEPT
                     ![r] = [call EXCEPT !.pc = "awaitRefresh",
                                         !.auth = [check EXCEPT !.awaits = c.promise]]]
               /\ isRefreshing' = c.isRefreshing
               /\ refreshPromise' = c.refreshPromise
               /\ promises' = c.promises
            /\ UNCHANGED <<lsToken, cookieToken, lsRefreshToken, requests, issued,
                           locationHref>>
       ELSE /\ startRequest(r)
            /\ apiCalls' = [apiCalls EXCEPT
                   ![r] = [call EXCEPT !.pc = "pending", !.auth = check]]

\* await this.refreshToken() settles: return true, or the inner catch
authRefreshSettles(r) ==
    LET p == apiCalls[r].auth.awaits IN
    /\ apiCalls[r].pc = "awaitRefresh"
    /\ promises[p].state \in {"fulfilled", "rejected"}
    /\ apiCalls' = [apiCalls EXCEPT
           ![r].pc = "returned",
           ![r].auth.value = {promises[p].state = "fulfilled"}]
    /\ UNCHANGED clientVars

\* the values of response.data.authenticated: {} when the field is missing
AuthenticatedFields == {{}, {TRUE}, {FALSE}}

\* await this.makeRequest(GET /auth/me) settles: the return, or the outer catch
authMeReturns(r, authenticated) ==
    /\ apiCalls[r].pc = "pending"
    /\ apiCalls[r].method = "getAuthStatus"
    /\ requests[r].pc \in {"done", "failed"}
    /\ apiCalls' = [apiCalls EXCEPT
           ![r].pc = "returned",
           ![r].auth.authenticated = IF requests[r].pc = "done" THEN authenticated ELSE {},
           ![r].auth.value = IF requests[r].pc = "done"
                             THEN {authenticated # {FALSE}}
                             ELSE {FALSE}]
    /\ UNCHANGED clientVars

\* ApiTimeout milliseconds pass while fetch() has no response: the abort timer
\* fires if makeRequest has set one
timeoutElapses(r) ==
    /\ requests[r].pc = "fetch"
    /\ apiCalls[r].pc = "pending"
    /\ ~apiCalls[r].overdue
    /\ apiCalls' = [apiCalls EXCEPT ![r].overdue = TRUE]
    /\ requests' =
          IF configTimeout(apiCalls[r].method) # {}
          THEN [requests EXCEPT ![r].pc = "failed", ![r].error = "Request timeout",
                                ![r].status = 0]
          ELSE requests
    /\ UNCHANGED <<lsToken, cookieToken, lsRefreshToken, isRefreshing, refreshPromise,
                   promises, issued, locationHref>>

\* the public method runs on after await this.makeRequest(...) and returns;
\* logout calls TokenManager.clearTokens() first
methodReturns(r) ==
    /\ apiCalls[r].pc = "pending"
    /\ apiCalls[r].method \in ApiMethods
    /\ requests[r].pc \in {"done", "failed"}
    /\ apiCalls' = [apiCalls EXCEPT
                       ![r].pc = "returned",
                       ![r].result = apiResponse(apiCalls[r].method, requests[r])]
    /\ IF apiCalls[r].method = "logout"
       THEN /\ lsToken' = NoToken
            /\ cookieToken' = NoToken
            /\ lsRefreshToken' = NoToken
       ELSE UNCHANGED <<lsToken, cookieToken, lsRefreshToken>>
    /\ UNCHANGED <<isRefreshing, refreshPromise, promises, requests, issued,
                   locationHref>>

(***************************************************************************)
(* pollTaskStatus (lume-agent API client).                                 *)
(***************************************************************************)
\* TaskStatusResponse.status as the backend reports it
TaskStates == {"running", "completed", "failed"}

\* status.status === 'completed' || status.status === 'failed'
isTerminal(st) == st = "completed" \/ st = "failed"

\* the values of options.maxAttempts
MaxAttemptsValues == 0..NumRequests

PollTimeoutMessage == <<"Task polling timeout - maximum attempts reached">>

\* pollTaskStatus has not been called
NoPoll ==
    [pc |-> "none", maxAttempts |-> 0, attempt |-> 0, calls |-> 0,
     statuses |-> <<>>, progress |-> <<>>, result |-> {}, thrown |-> {}]

\* the head of the for loop of call p with attempt = a: the next
\* api.getTaskStatus call, or the throw after the loop
loopHead(p, a) ==
    IF a < p.maxAttempts
    THEN /\ callMethod(a + 1, "getTaskStatus")
         /\ poll' = [p EXCEPT !.pc = "await", !.attempt = a, !.calls = @ + 1]
    ELSE /\ poll' = [p EXCEPT !.pc = "thrown", !.attempt = a,
                              !.thrown = {PollTimeoutMessage}]
         /\ UNCHANGED <<clientVars, apiVars>>

\* pollTaskStatus(taskId, {maxAttempts, onProgress}) up to its first await
pollTaskStatus(maxAttempts) ==
    /\ poll.pc = "none"
    /\ loopHead([NoPoll EXCEPT !.maxAttempts = maxAttempts], 0)

\* await api.getTaskStatus(taskId) returns: the rest of the loop body up to
\* the await of the interval
pollResumes(st) ==
    LET r == poll.attempt + 1
        response == apiCalls[r].result IN
    /\ poll.pc = "await"
    /\ apiCalls[r].pc = "returned"
    /\ IF response.error # {} /\ valueOf(response.error) # <<>>
       THEN poll' = [poll EXCEPT !.pc = "thrown", !.thrown = response.error]
       ELSE poll' = [poll EXCEPT !.pc = IF isTerminal(st) THEN "returned" ELSE "sleep",
                                 !.statuses = Append(@, st),
                                 !.progress = Append(@, st),
                                 !.result = IF isTerminal(st) THEN {st} ELSE {}]
    /\ UNCHANGED <<clientVars, apiVars>>

\* the interval has passed: attempt++ and the head of the loop
intervalElapses ==
    /\ poll.pc = "sleep"
    /\ loopHead(poll, poll.attempt + 1)

(***************************************************************************)
(* Sidebar (lume_frontend): the conversation list.                         *)
(***************************************************************************)
\* GET /api/chat/conversations/: the conversations of the session's user
getConversations(c) ==
    {k \in 1..Len(conversations) : conversations[k].owner = c}

\* loadConversations from the answer on: try and finally
loadConversationsResponds(c) ==
    /\ location[c] = "app"
    /\ sidebarPending[c]
    /\ isAuthenticated(c)
    /\ sidebarConversations' = [sidebarConversations EXCEPT ![c] = getConversations(c)]
    /\ sidebarPending' = [sidebarPending EXCEPT ![c] = FALSE]

\* apiClient.getConversations throws: catch and finally
loadConversationsFails(c) ==
    /\ location[c] = "app"
    /\ sidebarPending[c]
    /\ sidebarPending' = [sidebarPending EXCEPT ![c] = FALSE]
    /\ UNCHANGED sidebarConversations

\* no Sidebar is mounted
SidebarUnmounted ==
    /\ sidebarConversations = [c \in Clients |-> {}]
    /\ sidebarPending = [c \in Clients |-> FALSE]

\* Sidebar has mounted and its effect has called loadConversations
SidebarMounted ==
    /\ sidebarConversations = [c \in Clients |-> {}]
    /\ sidebarPending = [c \in Clients |-> TRUE]

StandaloneInit ==
    /\ detectLog = <<>>
    /\ apiCalls = [r \in RequestIds |-> NoCall]
    /\ poll = NoPoll

ExtInit == StandaloneInit /\ SidebarUnmounted


Init == AgentInit /\ ClientInit /\ WebInit /\ ExtInit

AgentNext ==
    \/ \E v \in TypedInputs : onChangeInput(v) /\ UNCHANGED <<clientVars, webVars, extVars>>
    \/ \E i \in 1..Len(agentMessages) :
          \E k \in 1..Len(agentMessages[i].suggestions) :
             handleQuickReply(agentMessages[i].suggestions[k]) /\ UNCHANGED <<clientVars, webVars, extVars>>
    \/ \E i \in 1..Len(agentMessages) :
          removeMessage(agentMessages[i].id) /\ UNCHANGED <<clientVars, webVars, extVars>>
    \/ handleSubmit /\ UNCHANGED <<clientVars, webVars, extVars>>
    \/ handleSubmitIgnored /\ UNCHANGED <<clientVars, webVars, extVars>>
    \/ \E res \in SuccessResponses \cup FailureResponses :
          sendPromptSettles(res) /\ UNCHANGED <<clientVars, webVars, extVars>>

ResponseStatuses == {200, 401, 500}

ClientNext ==
    \/ \E r \in RequestIds : startRequest(r) /\ UNCHANGED <<agentVars, webVars, extVars>>
    \/ \E r \in RequestIds : fetchFails(r) /\ UNCHANGED <<agentVars, webVars, extVars>>
    \/ \E r \in RequestIds, status \in ResponseStatuses :
          fetchResponds(r, status) /\ UNCHANGED <<agentVars, webVars, extVars>>
    \/ \E p \in PromiseIds : refreshFetchFails(p) /\ UNCHANGED <<agentVars, webVars, extVars>>
    \/ \E p \in PromiseIds, status \in ResponseStatuses, rt \in {NoToken, 2} :
          refreshResponds(p, status, rt) /\ UNCHANGED <<agentVars, webVars, extVars>>

\* the chat component alone: the API client stays as constructed
AgentOnlyInit == Init /\ lsToken = 1 /\ lsRefreshToken = 1

SpecAgent == AgentOnlyInit /\ [][AgentNext]_vars

SpecClient == Init /\ [][ClientNext]_vars

\* the answers to the fetches of the client: a response or a failure
ClientAnswers ==
    \/ \E r \in RequestIds : fetchFails(r) /\ UNCHANGED <<agentVars, webVars, extVars>>
    \/ \E r \in RequestIds, status \in ResponseStatuses :
          fetchResponds(r, status) /\ UNCHANGED <<agentVars, webVars, extVars>>
    \/ \E p \in PromiseIds : refreshFetchFails(p) /\ UNCHANGED <<agentVars, webVars, extVars>>
    \/ \E p \in PromiseIds, status \in ResponseStatuses, rt \in {NoToken, 2} :
          refreshResponds(p, status, rt) /\ UNCHANGED <<agentVars, webVars, extVars>>

\* the API client when every HTTP fetch returns a response or fails in the end
SpecClientFair == SpecClient /\ WF_vars(ClientAnswers)

ApiNext ==
    \/ \E r \in ApiRequestIds, method \in ApiMethods :
          callMethod(r, method) /\ UNCHANGED <<agentVars, webVars, detectorVars, sidebarVars, pollVars>>
    \/ \E r \in ApiRequestIds :
          fetchFails(r) /\ UNCHANGED <<agentVars, webVars, extVars>>
    \/ \E r \in ApiRequestIds, status \in ResponseStatuses :
          fetchResponds(r, status) /\ UNCHANGED <<agentVars, webVars, extVars>>
    \/ \E p \in PromiseIds :
          refreshFetchFails(p) /\ UNCHANGED <<agentVars, webVars, extVars>>
    \/ \E p \in PromiseIds, status \in ResponseStatuses, rt \in {NoToken, 2} :
          refreshResponds(p, status, rt) /\ UNCHANGED <<agentVars, webVars, extVars>>
    \/ \E r \in ApiRequestIds :
          getTaskStatusBlank(r)
          /\ UNCHANGED <<agentVars, webVars, detectorVars, sidebarVars, pollVars>>
    \/ \E r \in ApiRequestIds :
          timeoutElapses(r) /\ UNCHANGED <<agentVars, webVars, detectorVars, sidebarVars, pollVars>>
    \/ \E r \in ApiRequestIds :
          methodReturns(r) /\ UNCHANGED <<agentVars, webVars, detectorVars, sidebarVars, pollVars>>

\* the API client with its public methods
SpecApi == Init /\ [][ApiNext]_vars

\* a call of pollTaskStatus and the HTTP traffic of its getTaskStatus calls
PollSteps ==
    \/ \E r \in RequestIds :
          fetchFails(r) /\ UNCHANGED <<agentVars, webVars, extVars>>
    \/ \E r \in RequestIds, status \in ResponseStatuses :
          fetchResponds(r, status) /\ UNCHANGED <<agentVars, webVars, extVars>>
    \/ \E p \in PromiseIds :
          refreshFetchFails(p) /\ UNCHANGED <<agentVars, webVars, extVars>>
    \/ \E p \in PromiseIds, status \in ResponseStatuses, rt \in {NoToken, 2} :
          refreshResponds(p, status, rt) /\ UNCHANGED <<agentVars, webVars, extVars>>
    \/ \E r \in RequestIds :
          methodReturns(r)
          /\ UNCHANGED <<agentVars, webVars, detectorVars, sidebarVars, pollVars>>
    \/ \E st \in TaskStates :
          pollResumes(st) /\ UNCHANGED <<agentVars, webVars, detectorVars, sidebarVars>>
    \/ intervalElapses /\ UNCHANGED <<agentVars, webVars, detectorVars, sidebarVars>>

PollNext ==
    \/ \E n \in MaxAttemptsValues :
          pollTaskStatus(n) /\ UNCHANGED <<agentVars, webVars, detectorVars, sidebarVars>>
    \/ PollSteps

\* pollTaskStatus over the API client; every fetch returns a response or
\* fails, and every continuation that can run does
SpecPoll == Init /\ [][PollNext]_vars /\ WF_vars(PollSteps)

\* the makeRequest call of the one getAuthStatus call of SpecAuth
AuthRequestIds == {1}

\* one call of getAuthStatus next to the other requests of the client
AuthNext ==
    \/ \E r \in AuthRequestIds, jwt \in JwtPayloads :
          getAuthStatus(r, jwt)
          /\ UNCHANGED <<agentVars, webVars, detectorVars, sidebarVars, pollVars>>
    \/ \E r \in AuthRequestIds :
          authRefreshSettles(r)
          /\ UNCHANGED <<agentVars, webVars, detectorVars, sidebarVars, pollVars>>
    \/ \E r \in AuthRequestIds, authenticated \in AuthenticatedFields :
          authMeReturns(r, authenticated)
          /\ UNCHANGED <<agentVars, webVars, detectorVars, sidebarVars, pollVars>>
    \/ \E r \in RequestIds \ AuthRequestIds :
          startRequest(r) /\ UNCHANGED <<agentVars, webVars, extVars>>
    \/ ClientAnswers

SpecAuth == Init /\ [][AuthNext]_vars

DetectorNext ==
    \E m \in DetectMessages :
        detect(m) /\ UNCHANGED <<agentVars, clientVars, webVars, apiVars, sidebarVars, pollVars>>

SpecDetector == AgentOnlyInit /\ [][DetectorNext]_vars

\* the login and permission flows of one browser; the answers to the chat's
\* loadMessages requests and its failures are left to SpecSessions
OAuthNext ==
    \/ \E c \in OAuthClients : openApp(c) /\ UNCHANGED <<agentVars, clientVars, extVars>>
    \/ \E c \in OAuthClients : checkAuthResponds(c) /\ UNCHANGED <<agentVars, clientVars, extVars>>
    \/ \E c \in OAuthClients : checkAuthFails(c) /\ UNCHANGED <<agentVars, clientVars, extVars>>
    \/ \E c \in OAuthClients : handleLogin(c) /\ UNCHANGED <<agentVars, clientVars, extVars>>
    \/ \E c \in OAuthClients, s \in PresentableStates, ok \in BOOLEAN :
          oauthCallback(c, s, ok) /\ UNCHANGED <<agentVars, clientVars, extVars>>
    \/ \E c \in OAuthClients, s \in PresentableStates, ok \in BOOLEAN :
          serviceCallback(c, s, ok) /\ UNCHANGED <<agentVars, clientVars, extVars>>
    \/ Tick /\ UNCHANGED <<agentVars, clientVars, extVars>>
    \/ gcExpired /\ UNCHANGED <<agentVars, clientVars, extVars>>
    \/ \E c \in OAuthClients : handleLogout(c) /\ UNCHANGED <<agentVars, clientVars, extVars>>
    \/ \E c \in OAuthClients, p \in Services :
          handleToggle(c, p) /\ UNCHANGED <<agentVars, clientVars, extVars>>
    \/ \E c \in OAuthClients : onCancel(c) /\ UNCHANGED <<agentVars, clientVars, extVars>>
    \/ \E c \in OAuthClients, ok \in BOOLEAN :
          handlePermissionGrant(c, ok) /\ UNCHANGED <<agentVars, clientVars, extVars>>
    \/ \E c \in OAuthClients, text \in ChatInputs :
          /\ sends < MaxOAuthSends
          /\ handleSendMessage(c, text) /\ UNCHANGED <<agentVars, clientVars, extVars>>
    \/ \E c \in OAuthClients : \E p \in sendPending[c] : \E detected \in DetectedSets :
          sendResponds(c, p, detected, TRUE) /\ UNCHANGED <<agentVars, clientVars, extVars>>

SpecOAuth == AgentOnlyInit /\ [][OAuthNext]_vars

\* both browsers show the application to a logged-in user
LoggedInInit ==
    /\ AgentInit /\ ClientInit /\ lsToken = 1 /\ lsRefreshToken = 1
    /\ now = 0
    /\ users = [c \in Clients |-> [exists |-> TRUE, perms |-> {}]]
    /\ sessions = [c \in Clients |-> TRUE]
    /\ oauthStates = {}
    /\ nextState = 1
    /\ conversations = <<>>
    /\ nextMsgId = 1
    /\ lastCallback = "none"
    /\ location = [c \in Clients |-> "app"]
    /\ authUrl = [c \in Clients |-> <<>>]
    /\ urlParams = [c \in Clients |-> "none"]
    /\ user = [c \in Clients |-> getUserInfo(c)]
    /\ loading = [c \in Clients |-> FALSE]
    /\ currentConversationId = [c \in Clients |-> NoConv]
    /\ showPermissionModal = [c \in Clients |-> FALSE]
    /\ requiredPermissions = [c \in Clients |-> <<>>]
    /\ oauthState = [c \in Clients |-> <<>>]
    /\ selectedPermissions = [c \in Clients |-> EmptySelection]
    /\ checkAuthPending = [c \in Clients |-> 0]
    /\ reported = [c \in Clients |-> {}]
    /\ lastMissing = [c \in Clients |-> <<>>]
    /\ messages = [c \in Clients |-> <<>>]
    /\ chatLoading = [c \in Clients |-> FALSE]
    /\ loadingMessages = [c \in Clients |-> FALSE]
    /\ sendPending = [c \in Clients |-> {}]
    /\ loadPending = [c \in Clients |-> {}]
    /\ sends = 0

SessionsInit == LoggedInInit /\ ExtInit

\* the chat and the permission modal of two logged-in browsers
SessionsNext ==
    \/ \E c \in Clients, text \in ChatInputs :
          /\ sends < MaxSends
          /\ handleSendMessage(c, text) /\ UNCHANGED <<agentVars, clientVars, extVars>>
    \/ \E c \in Clients : \E p \in sendPending[c] :
          \E detected \in DetectedSets, withAssistant \in BOOLEAN :
             sendResponds(c, p, detected, withAssistant)
             /\ UNCHANGED <<agentVars, clientVars, extVars>>
    \/ \E c \in Clients : \E p \in sendPending[c] :
          sendFails(c, p) /\ UNCHANGED <<agentVars, clientVars, extVars>>
    \/ \E c \in Clients : \E k \in loadPending[c] :
          loadMessagesResponds(c, k) /\ UNCHANGED <<agentVars, clientVars, extVars>>
    \/ \E c \in Clients : \E k \in loadPending[c] :
          loadMessagesFails(c, k) /\ UNCHANGED <<agentVars, clientVars, extVars>>
    \/ \E c \in Clients : handleNewChat(c) /\ UNCHANGED <<agentVars, clientVars, extVars>>
    \/ \E c \in Clients, p \in Services :
          handleToggle(c, p) /\ UNCHANGED <<agentVars, clientVars, extVars>>
    \/ \E c \in Clients : onCancel(c) /\ UNCHANGED <<agentVars, clientVars, extVars>>
    \/ \E c \in Clients, ok \in BOOLEAN :
          handlePermissionGrant(c, ok) /\ UNCHANGED <<agentVars, clientVars, extVars>>
    \/ Tick /\ UNCHANGED <<agentVars, clientVars, extVars>>

SpecSessions == SessionsInit /\ [][SessionsNext]_vars

\* the chat, the modal and the Logout button of one of the logged-in browsers
LogoutNext ==
    \/ \E c \in OAuthClients, text \in ChatInputs :
          /\ sends < MaxSends
          /\ handleSendMessage(c, text) /\ UNCHANGED <<agentVars, clientVars, extVars>>
    \/ \E c \in OAuthClients : \E p \in sendPending[c] :
          \E detected \in DetectedSets, withAssistant \in BOOLEAN :
             sendResponds(c, p, detected, withAssistant)
             /\ UNCHANGED <<agentVars, clientVars, extVars>>
    \/ \E c \in OAuthClients : \E p \in sendPending[c] :
          sendFails(c, p) /\ UNCHANGED <<agentVars, clientVars, extVars>>
    \/ \E c \in OAuthClients : \E k \in loadPending[c] :
          loadMessagesResponds(c, k) /\ UNCHANGED <<agentVars, clientVars, extVars>>
    \/ \E c \in OAuthClients : handleNewChat(c) /\ UNCHANGED <<agentVars, clientVars, extVars>>
    \/ \E c \in OAuthClients : onCancel(c) /\ UNCHANGED <<agentVars, clientVars, extVars>>
    \/ \E c \in OAuthClients : handleLogout(c) /\ UNCHANGED <<agentVars, clientVars, extVars>>
    \/ \E c \in OAuthClients, served \in BOOLEAN :
          handleLogoutFails(c, served) /\ UNCHANGED <<agentVars, clientVars, extVars>>

SpecLogout == SessionsInit /\ [][LogoutNext]_vars

\* two logged-in browsers whose Sidebar has just mounted
SidebarInit == LoggedInInit /\ StandaloneInit /\ SidebarMounted

\* the answers the backend gives to the requests of the chat and the Sidebar
SidebarResponses ==
    \/ \E c \in Clients : \E p \in sendPending[c] :
          \E detected \in DetectedSets :
             sendResponds(c, p, detected, TRUE)
             /\ UNCHANGED <<agentVars, clientVars, extVars>>
    \/ \E c \in Clients : \E k \in loadPending[c] :
          loadMessagesResponds(c, k) /\ UNCHANGED <<agentVars, clientVars, extVars>>
    \/ \E c \in Clients :
          loadConversationsResponds(c)
          /\ UNCHANGED <<agentVars, clientVars, webVars, detectorVars, apiVars, pollVars>>

SidebarNext ==
    \/ \E c \in Clients, text \in ChatInputs :
          /\ sends < MaxSends
          /\ handleSendMessage(c, text) /\ UNCHANGED <<agentVars, clientVars, extVars>>
    \/ SidebarResponses
    \/ \E c \in Clients :
          loadConversationsFails(c)
          /\ UNCHANGED <<agentVars, clientVars, webVars, detectorVars, apiVars, pollVars>>
    \/ \E c \in Clients : handleNewChat(c) /\ UNCHANGED <<agentVars, clientVars, extVars>>
    \/ \E c \in Clients : onCancel(c) /\ UNCHANGED <<agentVars, clientVars, extVars>>

\* the chat and the Sidebar during one visit of the page; every request the
\* browser has sent is answered in the end
SpecSidebar == SidebarInit /\ [][SidebarNext]_vars /\ WF_vars(SidebarResponses)


(***************************************************************************)
(* Claims about lume-agent's ChatInterface (checked under SpecAgent).      *)
(***************************************************************************)
LastOf(seq) == seq[Len(seq)]

\* text is raw without its leading and trailing blanks, and is not empty
C9_IsTrimOf(text, raw) ==
    /\ text # <<>>
    /\ text[1] # " " /\ text[Len(text)] # " "
    /\ \E i \in 0..Len(raw) :
          /\ i + Len(text) <= Len(raw)
          /\ text = SubSeq(raw, i + 1, i + Len(text))
          /\ \A k \in 1..Len(raw) : (k <= i \/ k > i + Len(text)) => raw[k] = " "

\* the reply text the component shows for a successful response
C9_Reply(res) ==
    IF res.resultMessage \notin {{}, {<<>>}} THEN CHOOSE t \in res.resultMessage : TRUE
    ELSE IF res.message \notin {{}, {<<>>}} THEN CHOOSE t \in res.message : TRUE
    ELSE <<"Done.">>

C9_Succeeded(res) ==
    res.settle = "resolve" /\ res.hasData /\ res.error \in {{}, {<<>>}}

C9_SubmitStep ==
    (sendPromptCall = {} /\ sendPromptCall' # {}) =>
        /\ ~isLoading /\ isLoading'
        /\ Len(agentMessages') = Len(agentMessages) + 1
        /\ SubSeq(agentMessages', 1, Len(agentMessages)) = agentMessages
        /\ LastOf(agentMessages').role = "user"
        /\ C9_IsTrimOf(LastOf(agentMessages').text, input)
        /\ sendPromptCall' = {LastOf(agentMessages').text}
        /\ \A i \in 1..Len(agentMessages) :
              agentMessages[i].id # LastOf(agentMessages').id

C9_SettleStep ==
    (sendPromptCall # {} /\ sendPromptCall' = {}) =>
        /\ isLoading /\ ~isLoading'
        /\ Len(agentMessages') = Len(agentMessages) + 1
        /\ SubSeq(agentMessages', 1, Len(agentMessages)) = agentMessages
        /\ LastOf(agentMessages').role = "assistant"
        /\ IF C9_Succeeded(lastResponse')
           THEN /\ LastOf(agentMessages').text = C9_Reply(lastResponse')
                /\ LastOf(agentMessages').status = "delivered"
                /\ onErrorCalls' = onErrorCalls
           ELSE /\ Len(onErrorCalls') = Len(onErrorCalls) + 1
                /\ SubSeq(onErrorCalls', 1, Len(onErrorCalls)) = onErrorCalls
                /\ LastOf(agentMessages').text = <<"Error: ">> \o LastOf(onErrorCalls')
                /\ LastOf(agentMessages').status = "error"

\* C9: every accepted submit (input not blank, no send in progress) appends the
\* trimmed user message before api.sendPrompt settles; when sendPrompt settles,
\* exactly one assistant message is appended at the end: the reply text
\* (result.message, else message, else 'Done.') on success, 'Error: <msg>' with
\* status 'error' and exactly one onError call on failure; isLoading is true
\* while the call is pending and false once it has settled.
C9_SubmitThenOneReply ==
    [][C9_SubmitStep /\ C9_SettleStep /\ ((sendPromptCall' # {}) <=> isLoading')]_vars

\* C9 witness: a submit of ' Email John ' was accepted and its sendPrompt call
\* was rejected: the trimmed user message is followed by one error message.
C9_Witness ==
    /\ Len(agentMessages) = 2
    /\ agentMessages[1].role = "user"
    /\ agentMessages[1].text = <<"Email", " ", "John">>
    /\ agentMessages[2].status = "error"
    /\ agentMessages[2].text = <<"Error: ", "boom">>
    /\ onErrorCalls = <<(<<"boom">>)>>
    /\ ~isLoading

\* the quick replies of each service, keyed by its lower-case name
C10_Table(name) ==
    IF name = Str_gmail THEN <<"Show inbox", "Draft a reply", "Search email from Alex">>
    ELSE IF name = Str_calendar THEN <<"View my week", "Create event", "Reschedule meeting">>
    ELSE IF name = Str_tasks THEN <<"List tasks", "Add a task", "Mark task done">>
    ELSE IF name = Str_keep THEN <<"New note", "Search notes", "Make a checklist">>
    ELSE IF name = Str_maps THEN <<"Nearby cafes", "Traffic to work", "Best route home">>
    ELSE <<"Okay", "Another example", "Help">>

C10_SameIgnoringCase(s, t) ==
    /\ Len(s) = Len(t)
    /\ \A i \in 1..Len(s) : toLowerChar(s[i]) = toLowerChar(t[i])

C10_KnownNames == {Str_gmail, Str_calendar, Str_tasks, Str_keep, Str_maps}

C10_Expected(service) ==
    IF service \in {{}, {<<>>}} THEN <<"Tell me more", "Undo", "Help">>
    ELSE LET s == CHOOSE v \in service : TRUE IN
         IF \E n \in C10_KnownNames : C10_SameIgnoringCase(s, n)
         THEN C10_Table(CHOOSE n \in C10_KnownNames : C10_SameIgnoringCase(s, n))
         ELSE <<"Okay", "Another example", "Help">>

C10_IsQuickReply(v) ==
    \E i \in 1..Len(agentMessages) :
       \E k \in 1..Len(agentMessages[i].suggestions) :
          v = <<agentMessages[i].suggestions[k]>>

\* C10: every assistant message made from a successful response carries three
\* quick replies, the ones of the response's service compared case-insensitively
\* (whatever the action is; 'Draft a reply' among them for gmail); a step that
\* puts a quick reply's text into the input neither sends nor changes the list.
C10_QuickReplies ==
    [][ /\ (sendPromptCall # {} /\ sendPromptCall' = {} /\ C9_Succeeded(lastResponse')) =>
              /\ LastOf(agentMessages').suggestions = C10_Expected(lastResponse'.service)
              /\ Len(LastOf(agentMessages').suggestions) = 3
              /\ C10_SameIgnoringCase(valueOf(lastResponse'.service \cup {<<"-">>}), Str_gmail)
                     => LastOf(agentMessages').suggestions[2] = "Draft a reply"
        /\ (input' # input /\ C10_IsQuickReply(input')) =>
              UNCHANGED <<agentMessages, isLoading, sendPromptCall, onErrorCalls>>
      ]_vars

\* C10 witness: a response for service 'GMAIL' produced the gmail quick replies
\* and the user clicked 'Draft a reply', which now sits unsent in the input.
C10_Witness ==
    /\ lastResponse.service = {<<"G", "M", "A", "I", "L">>}
    /\ Len(agentMessages) = 2
    /\ agentMessages[2].suggestions = <<"Show inbox", "Draft a reply", "Search email from Alex">>
    /\ input = <<"Draft a reply">>
    /\ sendPromptCall = {}

(***************************************************************************)
(* Claims about the lume-agent API client (checked under SpecClient).      *)
(***************************************************************************)
\* the refreshes that have started and not finished
C6_Unfinished == { p \in PromiseIds : promises[p].state \in {"fetch", "awaiting"} }

C6_InFlight == { p \in PromiseIds : promises[p].state = "fetch" }

C6_AsksForRefresh(r) ==
    requests[r].pc = "fetch" /\ requests'[r].pc = "awaiting"

\* C6: at most one POST /auth/refresh is in flight at any time; a request that
\* asks for a refresh while one has not finished waits for that refresh and
\* no second one is started; every request re-sent after a refresh got the
\* access token of the refresh it waited for, which is the same for all of them.
C6_RefreshMemoized ==
    [][ /\ Cardinality({ p \in PromiseIds : promises'[p].state = "fetch" }) <= 1
        /\ \A r \in RequestIds :
              (C6_AsksForRefresh(r) /\ C6_Unfinished # {}) =>
                  /\ requests'[r].awaits \in C6_Unfinished
                  /\ promises' = promises
        /\ \A r \in RequestIds :
              requests'[r].newToken # NoToken =>
                  /\ promises'[requests'[r].awaits].state = "fulfilled"
                  /\ requests'[r].newToken = promises'[requests'[r].awaits].value
      ]_vars

\* C6 witness: both requests got 401 while the same refresh was unfinished, and
\* both were re-sent with the token of that one refresh.
C6_Witness ==
    /\ requests[1].awaits = 1 /\ requests[2].awaits = 1
    /\ requests[1].newToken = 2 /\ requests[2].newToken = 2
    /\ promises[1].state = "fulfilled"
    /\ promises[2].state = "unused"

C7_Responded(r, status) ==
    /\ requests[r].pc = "fetch"
    /\ requests'[r].pc # "fetch" \/ Len(requests'[r].sent) # Len(requests[r].sent)
    /\ requests'[r].status = status

\* C7: a request that receives 401 for its first send asks for a token refresh
\* (and fails with 'Token refresh failed' when there is none to be had); it is
\* re-sent only in the step in which the refresh it waits for succeeds, once,
\* carrying the new access token; a 401 for the re-sent request fails it with an
\* HTTP error and starts no refresh; no request is sent more than twice.
C7_RetryOnce ==
    [][ \A r \in RequestIds :
          /\ Len(requests'[r].sent) <= 2
          /\ (C7_Responded(r, 401) /\ Len(requests[r].sent) = 1) =>
                \/ /\ requests'[r].pc = "awaiting"
                   /\ promises'[requests'[r].awaits].state \in {"fetch", "awaiting"}
                \/ /\ requests'[r].pc = "failed"
                   /\ requests'[r].error = "Token refresh failed"
                   /\ lsRefreshToken = NoToken
          /\ (C7_Responded(r, 401) /\ Len(requests[r].sent) = 2) =>
                /\ requests'[r].pc = "failed"
                /\ requests'[r].error = "HTTP error"
                /\ promises' = promises
                /\ isRefreshing' = isRefreshing
          /\ Len(requests'[r].sent) > Len(requests[r].sent) /\ requests[r].pc # "idle" =>
                /\ requests[r].pc = "awaiting"
                /\ Len(requests'[r].sent) = 2
                /\ promises[requests[r].awaits].state = "fetch"
                /\ promises'[requests[r].awaits].state = "fulfilled"
                /\ requests'[r].sent[2] = promises'[requests[r].awaits].value
                /\ requests'[r].sent[2] = issued'
                /\ issued' # issued
      ]_vars

\* C7 witness: request 1 was sent with token 1, got 401, was re-sent with the
\* refreshed token 2, got 401 again and failed.
C7_Witness ==
    /\ requests[1].sent = <<1, 2>>
    /\ requests[1].pc = "failed"
    /\ requests[1].error = "HTTP error"
    /\ requests[1].status = 401

(***************************************************************************)
(* Claims about the OAuth flows (checked under SpecOAuth).                 *)
(***************************************************************************)
\* every state parameter a callback of a run can carry
AllStates == {<<"rnd", n>> : n \in 0..MaxTokens}

\* this step is a callback request of browser c that carries state s
C2_CallbackStep(c, s) ==
    \E ok \in BOOLEAN : oauthCallback(c, s, ok) \/ serviceCallback(c, s, ok)

\* browser c loads the application's page in this step, as it does at the
\* end of every callback
C2_PageLoads(c) ==
    /\ location'[c] = "app"
    /\ loading'[c]
    /\ lastCallback' # "none"
    /\ nextState' = nextState

\* the callback of browser c was rejected: nothing stored has changed and the
\* browser was sent to the application with the error parameter
C2_Rejected(c) ==
    /\ users' = users
    /\ sessions' = sessions
    /\ oauthStates' = oauthStates
    /\ urlParams'[c] = "error"
    /\ user'[c] = {}

\* this step consumes an unexpired OAuthState row of a service-permission
\* request of account a that asks for permission p
C1_ServiceCallbackFor(a, p) ==
    \E r \in oauthStates :
        /\ r.kind = "service" /\ r.user = a /\ p \in r.services
        /\ now <= r.expires_at
        /\ r \notin oauthStates'
        /\ \E c \in Clients : urlParams'[c] = "service_perms_granted"

\* this step is checkAuth taking the answer of GET /api/user/info/
C1_RereadsUserInfo(c) ==
    /\ checkAuthPending'[c] = checkAuthPending[c] - 1
    /\ user'[c] = getUserInfo(c)
    /\ users' = users

\* C1: a permission flag of a user turns true only in a step that is a
\* successful service-permission callback for that service (so asking for a
\* permission, cancelling the modal and a rejected or failed callback leave
\* every flag as it is), and the user that Home shows, permissions included,
\* changes to a new value only by taking the answer of the user-info request.
C1_FlagsOnlyByServiceCallback ==
    [][/\ \A a \in Clients, p \in Services :
             (p \notin users[a].perms /\ p \in users'[a].perms)
                => C1_ServiceCallbackFor(a, p)
       /\ \A c \in Clients :
             (user'[c] # user[c] /\ user'[c] # {}) => C1_RereadsUserInfo(c)]_vars

\* a service callback has granted a permission and Home shows it
C1_Witness ==
    \E c \in Clients :
        /\ users[c].perms # {}
        /\ user[c] = {[permissions |-> users[c].perms]}
        /\ lastCallback = "accepted"

\* C2: a callback whose state parameter matches no stored OAuthState row is
\* rejected with the error redirect, and no user, session, permission flag or
\* row is created or changed.
C2_UnknownStateRejected ==
    [][\A c \in Clients :
          C2_PageLoads(c) =>
             \A s \in AllStates :
                ((~\E r \in oauthStates : r.state = s) /\ C2_CallbackStep(c, s))
                   => C2_Rejected(c)]_vars

\* a callback with an unknown state was rejected while a state was outstanding
C2_Witness ==
    /\ lastCallback = "unknown"
    /\ oauthStates # {}
    /\ \E c \in Clients : urlParams[c] = "error" /\ location[c] = "app"

\* C4: a callback that carries a state the backend has issued is accepted only
\* while the state's row is stored and its expiry time, StateTTL minutes after
\* the row was stored, has not passed; after that it is rejected exactly as an
\* unknown state is, whether the expired row is still stored or was deleted.
C4_ExpiredStateRejected ==
    [][\A c \in Clients :
          C2_PageLoads(c) =>
             \A s \in AllStates :
                (/\ \A r \in oauthStates : r.state = s => now > r.expires_at
                 /\ C2_CallbackStep(c, s))
                   => C2_Rejected(c)]_vars

\* a callback carried a state whose row was still stored but had expired
C4_Witness ==
    /\ lastCallback = "expired"
    /\ \E r \in oauthStates : now > r.expires_at
    /\ \E c \in Clients : urlParams[c] = "error" /\ location[c] = "app"

\* this step is handlePermissionGrant of browser c calling the backend
C5_GrantStep(c) == \E ok \in BOOLEAN : handlePermissionGrant(c, ok)

C3_Outstanding(c) == location[c] = "app" /\ showPermissionModal[c]

\* C3: the state tokens outstanding for distinct authorization requests, the
\* state made for a service-permission request included, are pairwise
\* distinct.
C3_StatesPairwiseDistinct ==
    /\ \A r1, r2 \in oauthStates : r1 # r2 => r1.state # r2.state
    /\ \A c1, c2 \in Clients :
          (c1 # c2 /\ C3_Outstanding(c1) /\ C3_Outstanding(c2))
             => oauthState[c1] # oauthState[c2]

RECURSIVE IsSubseq(_, _)
\* a is b with some of its elements left out
IsSubseq(a, b) ==
    IF a = <<>> THEN TRUE
    ELSE IF b = <<>> THEN FALSE
    ELSE IF Head(a) = Head(b) THEN IsSubseq(Tail(a), Tail(b))
    ELSE IsSubseq(a, Tail(b))

\* the server-confirmed messages of conversation k in a message list
C8_Confirmed(list, k) ==
    LET stored(m) == m.origin = "server" /\ m \in Elems(conversations[k].msgs)
    IN  SelectSeq(list, stored)

\* this step is a send, a send response or a loadMessages response of browser
\* c for conversation k
C8_StepFor(c, k) ==
    \/ \E text \in ChatInputs : handleSendMessage(c, text)
    \/ \E p \in sendPending[c] :
          /\ p.conv = k
          /\ \/ sendFails(c, p)
             \/ \E detected \in DetectedSets, withAssistant \in BOOLEAN :
                   sendResponds(c, p, detected, withAssistant)
    \/ loadMessagesResponds(c, k)
    \/ loadMessagesFails(c, k)

\* the send answered in this step stored a user message and an assistant
\* message in conversation k, and both are the last two messages shown
C8_AddsAtEnd(c, k) ==
    LET before == Len(conversations[k].msgs)
        after == conversations'[k].msgs
        shown == messages'[c]
    IN  Len(after) = before + 2 =>
           /\ Len(shown) >= 2
           /\ SubSeq(shown, Len(shown) - 1, Len(shown)) = SubSeq(after, before + 1, before + 2)

\* C8: once a server-confirmed message of the selected conversation is
\* displayed, no later send, send response or loadMessages response for that
\* conversation removes it or changes its place among the confirmed messages,
\* and a successful send adds the server's user_message and then its
\* assistant message at the end of the list.
C8_AppendOnly ==
    [][\A c \in Clients :
          LET k == currentConversationId[c] IN
          (/\ k # NoConv
           /\ chatRendered(c) /\ ~loadingMessages[c]
           /\ C8_StepFor(c, k))
             => /\ IsSubseq(C8_Confirmed(messages[c], k), messages'[c])
                /\ C8_AddsAtEnd(c, k)]_vars

(***************************************************************************)
(* Claims about the service detector (checked under SpecDetector).         *)
(***************************************************************************)
\* the two messages differ at most in the case of their letters
C11_SameUpToCase(m1, m2) ==
    m2 \in {m1, toUpperCase(m1), toLowerCase(m1)}

C12_HasTrigger(text, s) ==
    \E w \in Elems(TriggerWords[s]), i \in 1..Len(text) :
        /\ i + Len(w) - 1 <= Len(text)
        /\ \A n \in 1..Len(w) : text[i + n - 1] = w[n]
        /\ ~\E ex \in Elems(Exclusions[s]), j \in 1..i :
               /\ i + Len(w) <= j + Len(ex)
               /\ j + Len(ex) - 1 <= Len(text)
               /\ \A n \in 1..Len(ex) : text[j + n - 1] = ex[n]

\* C12: each of the four flags is decided on its own by an any-match rule: a
\* flag is true exactly when the message has a trigger word of that service
\* that no false-positive exclusion covers; 'Send an email and create a task'
\* sets email and tasks and leaves calendar and keep false.
C12_AnyMatchPerService ==
    \A i \in 1..Len(detectLog) :
        LET e == detectLog[i] IN
        /\ \A s \in Services :
              e.result[s] <=> C12_HasTrigger(toLowerCase(e.message), s)
        /\ e.message = Msg_EmailAndTask =>
              e.result = [email |-> TRUE, calendar |-> FALSE,
                          tasks |-> TRUE, keep |-> FALSE]

\* detections were made on the example with two services and on a message
\* whose only trigger for keep is inside an excluded phrase
C12_Witness ==
    \E i, j \in 1..Len(detectLog) :
        /\ detectLog[i].message = Msg_EmailAndTask
        /\ detectLog[i].result["email"] /\ detectLog[i].result["tasks"]
        /\ detectLog[j].message = Msg_KeepInMind
        /\ detectLog[j].result["calendar"] /\ ~detectLog[j].result["keep"]

(***************************************************************************)
(* Claims about the public API methods (checked under SpecApi).            *)
(***************************************************************************)
\* the public method that made request r returns in this step
C13_Returns(r) == apiCalls[r].pc = "pending" /\ apiCalls'[r].pc = "returned"

\* C13: when logout() returns, the access token is in neither localStorage nor
\* the cookie, the refresh token is gone, and the result has status 200,
\* whether POST /auth/logout succeeded, failed with an HTTP error or failed
\* without a response.
C13_LogoutAlwaysClears ==
    [][\A r \in ApiRequestIds :
          (C13_Returns(r) /\ apiCalls[r].method = "logout") =>
             /\ lsToken' = NoToken
             /\ cookieToken' = NoToken
             /\ lsRefreshToken' = NoToken
             /\ apiCalls'[r].result.status = 200
             /\ apiCalls'[r].result.error = {}]_vars

\* logout has returned 200 with the tokens cleared although its request, sent
\* with a stored token, got no response
C13_Witness ==
    \E r \in ApiRequestIds :
        /\ apiCalls[r].method = "logout" /\ apiCalls[r].pc = "returned"
        /\ requests[r].pc = "failed" /\ requests[r].error = "network"
        /\ requests[r].sent[1] # NoToken
        /\ apiCalls[r].result.status = 200
        /\ lsToken = NoToken /\ cookieToken = NoToken /\ lsRefreshToken = NoToken

(***************************************************************************)
(* Claims about the permission modal (checked under SpecSessions).         *)
(***************************************************************************)
\* Grant Access is clicked in this step
C14_GrantStep(c) == \E ok \in BOOLEAN : handlePermissionGrant(c, ok)

\* the modal of browser c comes up in this step
C14_ModalOpens(c) == ~modalRendered(c) /\ modalRendered(c)'

\* C14: the map PermissionModal passes on marks as true only services that
\* the modal displays and the user left selected: every displayed service
\* starts selected, a click toggles that service and no other, and Grant
\* Access is not invoked with no service selected.
C14_UserSelectsServices ==
    [][\A c \in Clients :
          /\ C14_GrantStep(c) =>
                /\ selectedServices(selectedPermissions[c]) \subseteq offered(c)
                /\ selectedServices(selectedPermissions[c]) # {}
          /\ C14_ModalOpens(c) =>
                selectedServices(selectedPermissions'[c]) = offered(c)'
          /\ \A p \in Services :
                handleToggle(c, p) =>
                   LET before == selectedServices(selectedPermissions[c])
                       after == selectedServices(selectedPermissions'[c])
                   IN  after = (before \ {p}) \cup ({p} \ before)]_vars

(***************************************************************************)
(* Claims about the Sidebar (checked under SpecSidebar).                   *)
(***************************************************************************)
\* conversation k exists and belongs to the user of browser c
C15_Owns(c, k) == k <= Len(conversations) /\ conversations[k].owner = c

\* C15: every conversation of the logged-in user, one created in this visit
\* by the first message of a new chat included, appears in the Sidebar's
\* conversation list in the end.
C15_ConversationAppears ==
    \A c \in Clients, k \in 1..MaxSends :
        C15_Owns(c, k) ~> (k \in sidebarConversations[c])

(***************************************************************************)
(* Claims about pollTaskStatus (checked under SpecPoll).                   *)
(***************************************************************************)
C16_Settled == poll.pc \in {"returned", "thrown"}

\* the calls made, the value returned, the error thrown and the onProgress calls
C16_Bounded ==
    /\ poll.calls <= poll.maxAttempts
    /\ poll.progress = poll.statuses
    /\ \A i \in 1..Len(poll.statuses) :
          isTerminal(poll.statuses[i]) =>
             i = Len(poll.statuses) /\ poll.pc = "returned" /\ poll.result = {poll.statuses[i]}
    /\ poll.pc = "returned" =>
          poll.statuses # <<>> /\ isTerminal(poll.statuses[Len(poll.statuses)])
    /\ (poll.pc = "thrown" /\ poll.thrown = {PollTimeoutMessage}) =>
          /\ poll.calls = poll.maxAttempts
          /\ Len(poll.statuses) = poll.maxAttempts

\* C16: pollTaskStatus(taskId, {maxAttempts}) always terminates after at most
\* maxAttempts calls of getTaskStatus: it returns the first completed or failed
\* status and polls no further, throws the error of a poll that returned one,
\* throws the timeout error when maxAttempts polls (0 included) were all
\* non-terminal, and calls onProgress once per successful poll, in order.
C16_PollTerminates ==
    /\ []C16_Bounded
    /\ (poll.pc # "none") ~> C16_Settled

(***************************************************************************)
(* Claims about the API client when every fetch is answered (checked under *)
(* SpecClientFair).                                                        *)
(***************************************************************************)
C17_Issued(r) == requests[r].pc \in {"fetch", "awaiting"}

C17_Settled(r) == requests[r].pc \in {"done", "failed"}

\* C17: every request issued through the API client settles in the end, also
\* when POST /auth/refresh itself answers 401; a started refresh finishes and
\* resets isRefreshing to false.
C17_EveryRequestSettles ==
    /\ \A r \in RequestIds : C17_Issued(r) ~> C17_Settled(r)
    /\ isRefreshing ~> ~isRefreshing

(***************************************************************************)
(* Claims about failed refreshes (checked under SpecClient).               *)
(***************************************************************************)
\* the refresh request r asked for in this step, or was waiting for, has failed
C18_RefreshFailedFor(r) ==
    \/ /\ requests[r].pc = "awaiting"
       /\ promises'[requests[r].awaits].state = "rejected"
    \/ /\ C7_Responded(r, 401) /\ Len(requests[r].sent) = 1
       /\ promises'[requests'[r].awaits].state = "rejected"

C18_TokensCleared ==
    lsToken' = NoToken /\ cookieToken' = NoToken /\ lsRefreshToken' = NoToken

\* C18: when the refresh a 401 asked for fails (no refresh token stored, a
\* non-2xx answer of the refresh endpoint, a network failure of the refresh
\* call), both stored tokens are cleared, the page is sent to /login, and the
\* request fails with 'Token refresh failed' without being sent again; the
\* failure of a request that was re-sent after a refresh leaves the tokens alone.
C18_RefreshFailure ==
    [][ \A r \in RequestIds :
          /\ C18_RefreshFailedFor(r) =>
                /\ requests'[r].pc = "failed"
                /\ requests'[r].error = "Token refresh failed"
                /\ Len(requests'[r].sent) = 1
                /\ C18_TokensCleared
                /\ locationHref' = "/login"
          /\ requests[r].pc = "failed" => requests'[r] = requests[r]
          /\ (requests[r].pc = "fetch" /\ Len(requests[r].sent) = 2
                 /\ requests'[r].pc = "failed") =>
                /\ requests'[r].error # "Token refresh failed"
                /\ lsToken' = lsToken /\ cookieToken' = cookieToken
                /\ lsRefreshToken' = lsRefreshToken
                /\ locationHref' = locationHref
      ]_vars

\* C18 witness: request 1 waited for a refresh whose POST /auth/refresh was
\* sent and failed; the tokens are gone, the page is /login, and the request
\* was sent once; request 2 had been re-sent after an earlier refresh and failed.
C18_Witness ==
    /\ requests[1].pc = "failed" /\ requests[1].error = "Token refresh failed"
    /\ Len(requests[1].sent) = 1
    /\ promises[requests[1].awaits].state = "rejected"
    /\ promises[requests[1].awaits].sent = 1
    /\ lsToken = NoToken /\ cookieToken = NoToken /\ lsRefreshToken = NoToken
    /\ locationHref = "/login"
    /\ requests[2].pc = "failed" /\ Len(requests[2].sent) = 2

(***************************************************************************)
(* Claims about the public API methods (checked under SpecApi).            *)
(***************************************************************************)
\* the public method of call r, other than logout, has returned
C19_Returned(r) ==
    apiCalls[r].pc = "returned" /\ apiCalls[r].method # "logout"

\* makeRequest of call r ended without any response of the server
C19_NoServerResponse(r) ==
    requests[r].pc = "failed" /\ requests[r].error \in {"network", "Request timeout"}

\* C19: a public method whose request the server answered with an error status
\* returns that status; one whose request failed without a response (fetch
\* threw, or the request timed out) returns status 0 and the error 'Network
\* error - please check your connection'; status 500 of the client's own
\* (UNKNOWN_ERROR) is returned for neither.
C19_ErrorClassification ==
    \A r \in ApiRequestIds :
        C19_Returned(r) =>
            /\ (requests[r].pc = "failed" /\ ~C19_NoServerResponse(r)) =>
                  apiCalls[r].result.status = requests[r].status
            /\ C19_NoServerResponse(r) =>
                  /\ apiCalls[r].result.status = 0
                  /\ apiCalls[r].result.error =
                        {<<"Network error - please check your connection">>}

\* C20: every request a public method makes is subject to the 30 s timeout of
\* ApiConfig: no fetch stays unanswered beyond it, the request is aborted
\* and fails with 'Request timeout'.
C20_TimeoutApplies ==
    \A r \in ApiRequestIds :
        apiCalls[r].overdue =>
            requests[r].pc = "failed" /\ requests[r].error = "Request timeout"

\* the ApiResponse has its error field set
C21_ErrorSet(res) == res.error # {} /\ valueOf(res.error) # <<>>

\* the public method of call r has settled
C21_Settled(r) == apiCalls[r].pc = "returned"

\* the call failed: its request failed, or it was refused for a blank task id
C21_Failed(r) == apiCalls[r].blank \/ requests[r].pc = "failed"

C21_FailureResponse(r) ==
    /\ apiCalls[r].result.settle = "resolve"
    /\ C21_ErrorSet(apiCalls[r].result)
    /\ ~apiCalls[r].result.hasData

C21_SuccessResponse(r) ==
    /\ apiCalls[r].result.settle = "resolve"
    /\ apiCalls[r].result.error = {}
    /\ apiCalls[r].result.hasData

\* C21: the public methods (sendPrompt, getTaskStatus, getDetailedAuthStatus,
\* getServiceStatus, getGoogleOAuthUrl, healthCheck and logout) never reject:
\* on a failure (HTTP error, network failure, failed refresh, blank task id,
\* the last without a request) they resolve to an ApiResponse with error set
\* and no data, on success to one with data set and no error.
C21_NeverRejects ==
    \A r \in ApiRequestIds :
        C21_Settled(r) =>
            /\ apiCalls[r].blank => requests[r].pc = "idle"
            /\ IF C21_Failed(r) THEN C21_FailureResponse(r) ELSE C21_SuccessResponse(r)

\* C21 as amended: the same for every method but logout; logout resolves to
\* status 200 with neither data nor error, whether its request failed or not.
C21_NeverRejectsButLogout ==
    \A r \in ApiRequestIds :
        C21_Settled(r) =>
            /\ apiCalls[r].blank => requests[r].pc = "idle"
            /\ IF apiCalls[r].method = "logout"
               THEN /\ apiCalls[r].result.settle = "resolve"
                    /\ apiCalls[r].result.status = 200
                    /\ apiCalls[r].result.error = {}
                    /\ ~apiCalls[r].result.hasData
               ELSE IF C21_Failed(r) THEN C21_FailureResponse(r)
               ELSE C21_SuccessResponse(r)

\* C21 witness: a method other than logout has resolved with an error for a
\* request that waited for a refresh that failed
C21_Witness ==
    \E r \in ApiRequestIds :
        /\ C21_Settled(r) /\ apiCalls[r].method = "getServiceStatus"
        /\ requests[r].error = "Token refresh failed"
        /\ apiCalls[r].result.error = {<<"Token refresh failed">>}
        /\ apiCalls[r].result.status = 401

(***************************************************************************)
(* Claims about getAuthStatus (checked under SpecAuth).                    *)
(***************************************************************************)
C22_Returned(r) ==
    apiCalls[r].method = "getAuthStatus" /\ apiCalls[r].pc = "returned"

\* the stored token's payload has an exp before the current second, or the
\* token does not parse
C22_ExpiredOrUnparsable(jwt) ==
    ~jwt.parses \/ \E e \in jwt.exp : e < CurrentTime

\* C22: getAuthStatus returns a boolean; with no stored token it returns false
\* and sends nothing; with a stored token that is expired (exp strictly before
\* the current second) or unparsable it asks for a refresh and returns true
\* exactly when that refresh succeeds, without GET /auth/me; otherwise it
\* returns true exactly when GET /auth/me succeeds and authenticated is not false.
C22_AuthStatus ==
    \A r \in AuthRequestIds :
        C22_Returned(r) =>
            LET a == apiCalls[r].auth IN
            /\ a.value \in {{TRUE}, {FALSE}}
            /\ IF a.token = NoToken
               THEN /\ a.value = {FALSE}
                    /\ requests[r].sent = <<>> /\ a.awaits = NoPromise
               ELSE IF C22_ExpiredOrUnparsable(a.jwt)
               THEN /\ a.awaits # NoPromise
                    /\ requests[r].sent = <<>>
                    /\ a.value = {promises[a.awaits].state = "fulfilled"}
               ELSE /\ a.awaits = NoPromise
                    /\ requests[r].sent # <<>>
                    /\ a.value = {requests[r].pc = "done" /\ FALSE \notin a.authenticated}

\* C22 witness: a token that expires in the current second is not expired:
\* getAuthStatus asked /auth/me and returned true
C22_Witness ==
    \E r \in AuthRequestIds :
        /\ C22_Returned(r)
        /\ apiCalls[r].auth.jwt = [parses |-> TRUE, exp |-> {CurrentTime}]
        /\ apiCalls[r].auth.value = {TRUE}
        /\ requests[r].pc = "done"

(***************************************************************************)
(* Claims about the optimistic update of the chat (checked under           *)
(* SpecSessions).                                                          *)
(***************************************************************************)
\* the temporary message of the pending send p
C23_Temp(p) == LocalMessage("user", p.content)

\* list without its element i
C23_Without(list, i) == SubSeq(list, 1, i - 1) \o SubSeq(list, i + 1, Len(list))

\* after is before with one temporary message of p, and nothing else, taken
\* out and the messages of added put in its stead at the end
C23_Replaces(before, after, p, added) ==
    \E i \in 1..Len(before) :
        /\ before[i] = C23_Temp(p)
        /\ after = C23_Without(before, i) \o added

\* what a successful send shows in the stead of the temporary message: the
\* server's user_message, then the assistant message or the permission notice
\* (nothing when the response has no assistant_message)
C23_Shown(c, p) ==
    LET stored == IF p.conv = NoConv THEN conversations'[Len(conversations')].msgs
                  ELSE SubSeq(conversations'[p.conv].msgs,
                              Len(conversations[p.conv].msgs) + 1,
                              Len(conversations'[p.conv].msgs))
    IN  IF lastMissing'[c] # lastMissing[c] \/ reported'[c] # reported[c]
           \/ (showPermissionModal'[c] /\ Len(stored) = 1 /\ requiredPermissions'[c] # <<>>
               /\ oauthState'[c] # oauthState[c])
        THEN {<<stored[1], permMessage>>}
        ELSE {stored, <<stored[1], permMessage>>}

\* C23: a send appends exactly one temporary user message; when the send
\* succeeds that message, and no other, is replaced by the server's
\* user_message followed by the assistant or permission-notice message; when
\* it fails that message, and no other, is removed and the one system message
\* 'Failed to send message. Please try again.' is appended; loading is false
\* afterwards in both cases.
C23_OptimisticRollback ==
    [][\A c \in Clients :
          /\ \A text \in ChatInputs :
                handleSendMessage(c, text) =>
                   messages'[c] = Append(messages[c], LocalMessage("user", trim(text)))
          /\ \A p \in sendPending[c] :
                p.alive =>
                   /\ sendFails(c, p) =>
                         /\ C23_Replaces(messages[c], messages'[c], p, <<errorMessage>>)
                         /\ ~chatLoading'[c]
                   /\ (\E detected \in DetectedSets, withAssistant \in BOOLEAN :
                          sendResponds(c, p, detected, withAssistant)) =>
                         /\ \E added \in C23_Shown(c, p) :
                               C23_Replaces(messages[c], messages'[c], p, added)
                         /\ ~chatLoading'[c]]_vars

(***************************************************************************)
(* Claims about Home.handleLogout (checked under SpecLogout).              *)
(***************************************************************************)
\* the login screen is what Home renders for browser c
C24_LoginScreenShown(c) == location[c] = "app" /\ ~loading[c] /\ user[c] = {}

\* C24: handleLogout changes the UI state only on success: when the logout
\* request resolves, user and currentConversationId become null and the login
\* screen is shown; when it fails, user, currentConversationId, the state of
\* the permission modal and the required permissions stay as they were.
C24_LogoutOnlyOnSuccess ==
    [][\A c \in OAuthClients :
          /\ handleLogout(c) =>
                /\ user'[c] = {}
                /\ currentConversationId'[c] = NoConv
                /\ C24_LoginScreenShown(c)'
          /\ (\E served \in BOOLEAN : handleLogoutFails(c, served)) =>
                /\ user'[c] = user[c]
                /\ currentConversationId'[c] = currentConversationId[c]
                /\ showPermissionModal'[c] = showPermissionModal[c]
                /\ oauthState'[c] = oauthState[c]
                /\ selectedPermissions'[c] = selectedPermissions[c]
                /\ requiredPermissions'[c] = requiredPermissions[c]]_vars

\* C24 witness: a logout failed after the backend had ended the session, and
\* the page still shows the user, the selected conversation and the open modal
C24_Witness ==
    \E c \in OAuthClients :
        /\ ~sessions[c]
        /\ user[c] # {}
        /\ currentConversationId[c] # NoConv
        /\ showPermissionModal[c] /\ requiredPermissions[c] # <<>>

====
